---- MODULE Spec2Model ----
(***************************************************************************)
(* A model of kubeprom's in-memory time-series store (MetricStore), its    *)
(* storage adapter for the PromQL engine (InMemoryQuerier and the series   *)
(* set it returns) and the flattening of engine results into MetricResult  *)
(* rows (convertPromQLResult).                                             *)
(*                                                                         *)
(* Strings are TLA+ strings; float64 sample values and int64 millisecond   *)
(* timestamps are small integers.  A Go pointer that may be nil, such as   *)
(* metric.Counter, is a sequence of length 0 (nil) or 1.                   *)
(***************************************************************************)
EXTENDS Integers, Sequences, FiniteSets, TLC

\* ------------------------------------------------------------------ bounds

\* Largest reading of time.Now().UnixMilli() the model lets the clock reach.
MaxClock == 1

\* Number of AddMetricFamilies calls one behaviour may start.
MaxCalls == 2

\* Number of Next calls the model makes on an iterator that is past its last
\* sample.
MaxOverrun == 1

\* --------------------------------------------------------- program constants

\* "Keep only last 1000 samples per series".
RetentionCap == 1000

NameLabel == "__name__"

\* ------------------------------------------------------------ string order

\* Go compares strings bytewise.  StrOrder lists every string the model uses
\* as a label name or value, in ascending bytewise order: the upper-case
\* letters come before '_' (0x5f), which comes before the lower-case ones.
StrOrder ==
    << "", "GET", "POST", "__name__", "a", "b", "job", "method", "scalar", "up", "www" >>

StrRank(s) == CHOOSE i \in 1..Len(StrOrder) : StrOrder[i] = s

\* a < b on Go strings.
StrLess(a, b) == StrRank(a) < StrRank(b)

\* ------------------------------------------------------------------ labels

\* labels.Label{Name, Value}.
Lbl(n, v) == [Name |-> n, Value |-> v]

\* labels.Labels.Get: the value of the first label called name, "" if none.
LabelsGet(ls, name) ==
    IF \E i \in 1..Len(ls) : ls[i].Name = name
    THEN ls[CHOOSE i \in 1..Len(ls) :
                /\ ls[i].Name = name
                /\ \A j \in 1..(i - 1) : ls[j].Name # name].Value
    ELSE ""

\* The sequences that hold exactly the elements of s, each as often as s does.
Perms(s) ==
    LET n == Len(s)
        bij == { f \in [1..n -> 1..n] : \A i, j \in 1..n : i # j => f[i] # f[j] }
    IN  { [i \in 1..n |-> s[f[i]]] : f \in bij }

\* Whether ls is in non-decreasing order of label name.
SortedByName(ls) ==
    \A i \in 1..(Len(ls) - 1) : ~StrLess(ls[i + 1].Name, ls[i].Name)

\* sort.Slice(lbls, less on Name).  sort.Slice is not a stable sort, so labels
\* with equal names may come out in either order: every outcome is kept.
SortLabels_NoSort(ls) == { ls }

SortLabels(ls) == { p \in Perms(ls) : SortedByName(p) }

\* strconv.Quote on the strings of the model (none needs an escape).
Quote(s) == "\"" \o s \o "\""

RECURSIVE JoinLabels(_)
JoinLabels(ls) ==
    IF Len(ls) = 0 THEN ""
    ELSE LET one == ls[1].Name \o "=" \o Quote(ls[1].Value)
         IN  IF Len(ls) = 1 THEN one ELSE one \o ", " \o JoinLabels(Tail(ls))

\* labels.Labels.String(): {name="value", name="value"} in the stored order.
LabelsString_NameOnly(ls) == "{" \o LabelsGet(ls, NameLabel) \o "}"

LabelsString(ls) == "{" \o JoinLabels(ls) \o "}"

\* ------------------------------------------------- metric families (input)

\* dto.MetricType values the switch names, and one it does not.
MetricTypes == { "COUNTER", "GAUGE", "SUMMARY", "UNTYPED", "HISTOGRAM", "GAUGE_HISTOGRAM" }

\* dto.LabelPair with its name and value set.
Pair(n, v) == [Name |-> n, Value |-> v]

\* dto.Histogram and dto.Summary, as far as the store reads them: the number
\* of observations and their sum.
Observations(count, sum) == [SampleCount |-> count, SampleSum |-> sum]

\* dto.Metric: its label pairs and the five payload pointers, <<>> for nil.
\* Counter, Gauge and Untyped carry a value, Histogram and Summary their
\* Observations.
Metric(ls, c, g, h, s, u) ==
    [Label |-> ls, Counter |-> c, Gauge |-> g, Histogram |-> h, Summary |-> s, Untyped |-> u]

GaugeMetric(ls, v) == Metric(ls, <<>>, <<v>>, <<>>, <<>>, <<>>)

CounterMetric(ls, v) == Metric(ls, <<v>>, <<>>, <<>>, <<>>, <<>>)

\* dto.MetricFamily: its type and its metrics.
Family(t, ms) == [Type |-> t, Metric |-> ms]

\* ------------------------------------------------- AddMetricFamilies, pure

\* lbls after the two appends: the name label, then the metric's labels in
\* the order the metric lists them.
BuildLabels(metricName, metric) ==
    << Lbl(NameLabel, metricName) >> \o
    [i \in 1..Len(metric.Label) |-> Lbl(metric.Label[i].Name, metric.Label[i].Value)]

\* The switch on family.GetType(): value stays 0 when the payload pointer of
\* the declared type is nil or the type is none of the five.
ExtractValue_Sum(type, metric) ==
    CASE type = "COUNTER"   -> IF metric.Counter # <<>> THEN metric.Counter[1] ELSE 0
      [] type = "GAUGE"     -> IF metric.Gauge # <<>> THEN metric.Gauge[1] ELSE 0
      [] type = "HISTOGRAM" -> IF metric.Histogram # <<>>
                               THEN metric.Histogram[1].SampleSum ELSE 0
      [] type = "SUMMARY"   -> IF metric.Summary # <<>>
                               THEN metric.Summary[1].SampleSum ELSE 0
      [] type = "UNTYPED"   -> IF metric.Untyped # <<>> THEN metric.Untyped[1] ELSE 0
      [] OTHER              -> 0

ExtractValue_AnyPayload(type, metric) ==
    IF type = "COUNTER" /\ metric.Counter # <<>> THEN metric.Counter[1]
    ELSE IF type = "GAUGE" /\ metric.Gauge # <<>> THEN metric.Gauge[1]
    ELSE IF type = "HISTOGRAM" /\ metric.Histogram # <<>> THEN metric.Histogram[1].SampleCount
    ELSE IF type = "SUMMARY" /\ metric.Summary # <<>> THEN metric.Summary[1].SampleCount
    ELSE IF type = "UNTYPED" /\ metric.Untyped # <<>> THEN metric.Untyped[1]
    ELSE IF metric.Counter # <<>> THEN metric.Counter[1]
    ELSE IF metric.Gauge # <<>> THEN metric.Gauge[1]
    ELSE IF metric.Untyped # <<>> THEN metric.Untyped[1]
    ELSE IF metric.Histogram # <<>> THEN metric.Histogram[1].SampleCount
    ELSE IF metric.Summary # <<>> THEN metric.Summary[1].SampleCount
    ELSE 0

ExtractValue(type, metric) ==
    CASE type = "COUNTER"   -> IF metric.Counter # <<>> THEN metric.Counter[1] ELSE 0
      [] type = "GAUGE"     -> IF metric.Gauge # <<>> THEN metric.Gauge[1] ELSE 0
      [] type = "HISTOGRAM" -> IF metric.Histogram # <<>>
                               THEN metric.Histogram[1].SampleCount ELSE 0
      [] type = "SUMMARY"   -> IF metric.Summary # <<>>
                               THEN metric.Summary[1].SampleCount ELSE 0
      [] type = "UNTYPED"   -> IF metric.Untyped # <<>> THEN metric.Untyped[1] ELSE 0
      [] OTHER              -> 0

\* Sample{Timestamp, Value}.
Sample(t, v) == [Timestamp |-> t, Value |-> v]

\* "Get or create time series": the index with a series under key.
GetOrCreate_AlwaysCreate(idx, key, lbls) ==
    [k \in DOMAIN idx \cup {key} |->
        IF k = key THEN [SeriesLabels |-> lbls, Samples |-> << >>] ELSE idx[k]]

GetOrCreate(idx, key, lbls) ==
    IF key \in DOMAIN idx
    THEN idx
    ELSE idx @@ (key :> [SeriesLabels |-> lbls, Samples |-> << >>])

\* series.Samples = append(series.Samples, Sample{...}).
AppendSample_Front(idx, key, smp) ==
    [idx EXCEPT ![key].Samples = << smp >> \o @]

AppendSample_Broadcast(idx, key, smp) ==
    [k \in DOMAIN idx |-> [idx[k] EXCEPT !.Samples = Append(@, smp)]]

AppendSample(idx, key, smp) ==
    [idx EXCEPT ![key].Samples = Append(@, smp)]

\* if len(series.Samples) > 1000 { series.Samples = series.Samples[len-1000:] }
TrimSamples_KeepOldest(samples) ==
    IF Len(samples) > RetentionCap THEN SubSeq(samples, 1, RetentionCap) ELSE samples

TrimSamples_OffByOne(samples) ==
    IF Len(samples) > RetentionCap + 1
    THEN SubSeq(samples, Len(samples) - RetentionCap + 1, Len(samples))
    ELSE samples

TrimSamples(samples) ==
    IF Len(samples) > RetentionCap
    THEN SubSeq(samples, Len(samples) - RetentionCap + 1, Len(samples))
    ELSE samples

\* ------------------------------------------------------------------- state

\* The goroutines that call AddMetricFamilies, and those that call the querier.
\* A writer goroutine calls again and again; a reader goroutine makes one call
\* of the querier and keeps what it returned.
Writers == { "w1", "w2" }

Readers == { "r1" }

VARIABLES
    series,     \* MetricStore.series: series key -> [SeriesLabels, Samples]
    writer,     \* MetricStore.mutex: the goroutine holding the write lock, or "none"
    readers,    \* MetricStore.mutex: the goroutines holding the read lock
    clock,      \* the reading time.Now().UnixMilli() gives
    amf,        \* per writer: the locals of its AddMetricFamilies call
    qry,        \* per reader: the locals of its querier call and what it returned
    calls,      \* AddMetricFamilies calls started so far
    log,        \* history: one entry per sample appended, in the order appended
    conv,       \* a convertPromQLResult call: its argument and what it returned
    run         \* a collectAllMetrics call: its position and what it has done

vars == << series, writer, readers, clock, amf, qry, calls, log, conv, run >>

\* The locals of a goroutine that is in no AddMetricFamilies call.
AmfIdle ==
    [pc |-> "idle", call |-> 0, families |-> << >>, todo |-> {}, name |-> "", i |-> 0,
     timestamp |-> 0, key |-> "", value |-> 0]

\* chunkenc.ValueType, as far as the iterator returns it; "none" before the
\* first call.
ValNone == "ValNone"

ValFloat == "ValFloat"

\* No InMemorySeriesIterator: open tells whether the reader holds one, samples
\* and current are its fields; op, arg and ret are the last call made on it
\* ("Next" or "Seek"), its argument and what it returned, prev is the history
\* of current before that call, and of is the history of the position, in the
\* series set, of the series it was made from.  nexts and got are the history
\* of an iterator that only Next was called on: the number of these calls and
\* what At returned after each of them that reported a float; a Seek sets
\* them to -1 and to no result.
NoIterator ==
    [open |-> FALSE, samples |-> << >>, current |-> -1,
     op |-> "none", arg |-> 0, ret |-> "none", prev |-> -1, of |-> -1,
     nexts |-> 0, got |-> << >>]

\* The locals of a goroutine that is in no querier call and holds no result:
\* op is the method called, ctx the state of the context handed to Select,
\* result and current the fields of the series set Select returned, values the
\* strings LabelValues or LabelNames returned; seen is the history of the
\* labels of the series At returned after each Next, and it the iterator the
\* goroutine holds.
QryIdle ==
    [op |-> "none", pc |-> "idle", mint |-> 0, maxt |-> 0, sortSeries |-> FALSE,
     name |-> "", matchers |-> << >>, result |-> << >>, values |-> << >>,
     ctx |-> "live", current |-> -1, seen |-> << >>, it |-> NoIterator]

\* promql.Result.Value: type is the dynamic type of the value ("Vector",
\* "Scalar", "Matrix", "String", or "nil" for no value) and the field of that
\* type holds the value; the other fields are not read.
ResultValue(type, vector, scalar, matrix, str) ==
    [type |-> type, Vector |-> vector, Scalar |-> scalar, Matrix |-> matrix, String |-> str]

NoValue == ResultValue("nil", << >>, [T |-> 0, V |-> 0], << >>, "")

\* No ExecutePromQL and no convertPromQLResult call was made.  query and ctx
\* are the arguments of ExecutePromQL and ts the time it hands to the engine;
\* result is the value convertPromQLResult is called on, rows and err are what
\* the call returns.  created, ran and selects are the history of the calls of
\* NewInstantQuery, of Exec and of the storage adapter, and logged that of the
\* number of samples the store had taken in when ExecutePromQL was called.
ConvIdle ==
    [pc |-> "idle", result |-> NoValue, rows |-> << >>, err |-> "",
     query |-> "", ctx |-> "live", ts |-> 0,
     created |-> 0, ran |-> 0, selects |-> 0, logged |-> 0]

\* No collectAllMetrics call was made.  i is the position of the loop in the
\* list of components; attempted, outcomes, batches and callOf are the history
\* of the components whose collection was started, of how each collection
\* ended ("failed", "nil" or "ok"), of the families it returned and of the
\* AddMetricFamilies call made with them (0 for none); err is what the call
\* returned.
RunIdle ==
    [pc |-> "idle", i |-> 0, attempted |-> << >>, outcomes |-> << >>,
     batches |-> << >>, callOf |-> << >>, err |-> ""]

\* NewMetricStore: an empty index, the mutex free.
Init ==
    /\ series = << >>
    /\ writer = "none"
    /\ readers = {}
    /\ clock = 0
    /\ amf = [w \in Writers |-> AmfIdle]
    /\ qry = [r \in Readers |-> QryIdle]
    /\ calls = 0
    /\ log = << >>
    /\ conv = ConvIdle
    /\ run = RunIdle

\* Time passes: a later time.Now() reads a later millisecond.
Tick ==
    /\ clock < MaxClock
    /\ clock' = clock + 1
    /\ UNCHANGED << series, writer, readers, amf, qry, calls, log, conv, run >>

\* ----------------------------------------------------- sync.RWMutex

\* Lock() returns once no goroutine holds the mutex for writing or reading.
CanLock_IgnoreReaders == writer = "none"

CanLock == writer = "none" /\ readers = {}

\* RLock() returns once no goroutine holds the mutex for writing.
CanRLock_NoMutex == TRUE

CanRLock == writer = "none"

\* ------------------------------------------------ AddMetricFamilies, steps

\* A goroutine calls AddMetricFamilies(families) and waits in s.mutex.Lock();
\* limit bounds the calls of a behaviour.
AMF_Call(w, families, limit) ==
    /\ amf[w].pc = "idle"
    /\ calls < limit
    /\ calls' = calls + 1
    /\ amf' = [amf EXCEPT ![w] = [AmfIdle EXCEPT !.pc = "lock", !.call = calls + 1,
                                                 !.families = families]]
    /\ UNCHANGED << series, writer, readers, clock, qry, log, conv, run >>

\* s.mutex.Lock() returns.
AMF_Lock(w) ==
    /\ amf[w].pc = "lock"
    /\ CanLock
    /\ writer' = w
    /\ amf' = [amf EXCEPT ![w].pc = "now"]
    /\ UNCHANGED << series, readers, clock, qry, calls, log, conv, run >>

\* timestamp := time.Now().UnixMilli(), and the range over families begins.
AMF_Now(w) ==
    /\ amf[w].pc = "now"
    /\ amf' = [amf EXCEPT ![w].timestamp = clock,
                          ![w].todo = DOMAIN amf[w].families,
                          ![w].pc = "family"]
    /\ UNCHANGED << series, writer, readers, clock, qry, calls, log, conv, run >>

\* for metricName, family := range families: Go ranges over a map in an order
\* of its choosing; the loop ends when no family is left.
AMF_Family_EagerSeries(w) ==
    /\ amf[w].pc = "family"
    /\ IF amf[w].todo = {}
       THEN amf' = [amf EXCEPT ![w].pc = "unlock"] /\ UNCHANGED series
       ELSE \E name \in amf[w].todo :
                /\ amf' = [amf EXCEPT ![w].name = name, ![w].todo = @ \ {name},
                                      ![w].i = 1, ![w].pc = "metric"]
                /\ series' = GetOrCreate(series, LabelsString(<< Lbl(NameLabel, name) >>),
                                         << Lbl(NameLabel, name) >>)
    /\ UNCHANGED << writer, readers, clock, qry, calls, log, conv, run >>

AMF_Family(w) ==
    /\ amf[w].pc = "family"
    /\ IF amf[w].todo = {}
       THEN amf' = [amf EXCEPT ![w].pc = "unlock"]
       ELSE \E name \in amf[w].todo :
                amf' = [amf EXCEPT ![w].name = name, ![w].todo = @ \ {name},
                                   ![w].i = 1, ![w].pc = "metric"]
    /\ UNCHANGED << series, writer, readers, clock, qry, calls, log, conv, run >>

\* for _, metric := range family.Metric: the next metric's labels are built and
\* sorted, its series is looked up or created, its value is extracted.
AMF_Metric(w) ==
    /\ amf[w].pc = "metric"
    /\ LET family == amf[w].families[amf[w].name]
       IN  IF amf[w].i > Len(family.Metric)
           THEN /\ amf' = [amf EXCEPT ![w].pc = "family"]
                /\ UNCHANGED series
           ELSE LET metric == family.Metric[amf[w].i]
                IN  \E lbls \in SortLabels(BuildLabels(amf[w].name, metric)) :
                        LET seriesKey == LabelsString(lbls)
                        IN  /\ series' = GetOrCreate(series, seriesKey, lbls)
                            /\ amf' = [amf EXCEPT
                                         ![w].key = seriesKey,
                                         ![w].value = ExtractValue(family.Type, metric),
                                         ![w].pc = "append"]
    /\ UNCHANGED << writer, readers, clock, qry, calls, log, conv, run >>

\* Sample{Timestamp: timestamp, Value: value}: the timestamp is the local read
\* once after Lock() returned.
BatchSample_Now(w) == Sample(clock, amf[w].value)

BatchSample(w) == Sample(amf[w].timestamp, amf[w].value)

\* series.Samples = append(series.Samples, Sample{timestamp, value}).
AMF_Append(w) ==
    /\ amf[w].pc = "append"
    /\ LET smp == BatchSample(w)
           metric == amf[w].families[amf[w].name].Metric[amf[w].i]
       IN  /\ series' = AppendSample(series, amf[w].key, smp)
           /\ log' = Append(log, [call |-> amf[w].call, name |-> amf[w].name,
                                  Label |-> metric.Label, key |-> amf[w].key,
                                  sample |-> smp])
    /\ amf' = [amf EXCEPT ![w].pc = "trim"]
    /\ UNCHANGED << writer, readers, clock, qry, calls, conv, run >>

\* The retention check on the series just appended to; then the next metric.
AMF_Trim_Aliased(w) ==
    /\ amf[w].pc = "trim"
    /\ series' = [series EXCEPT ![amf[w].key].Samples = TrimSamples(@)]
    /\ amf' = [amf EXCEPT ![w].i = @ + 1, ![w].pc = "metric"]
    /\ qry' = [r \in Readers |->
                 [qry[r] EXCEPT !.result =
                     [i \in DOMAIN @ |->
                         IF @[i].SeriesLabels = series[amf[w].key].SeriesLabels
                         THEN series'[amf[w].key]
                         ELSE @[i]]]]
    /\ UNCHANGED << writer, readers, clock, calls, log, conv, run >>

AMF_Trim_DropSeries(w) ==
    /\ amf[w].pc = "trim"
    /\ series' = IF Len(series[amf[w].key].Samples) > RetentionCap
                 THEN [k \in DOMAIN series \ { amf[w].key } |-> series[k]]
                 ELSE series
    /\ amf' = [amf EXCEPT ![w].i = @ + 1, ![w].pc = "metric"]
    /\ UNCHANGED << writer, readers, clock, qry, calls, log, conv, run >>

AMF_Trim(w) ==
    /\ amf[w].pc = "trim"
    /\ series' = [series EXCEPT ![amf[w].key].Samples = TrimSamples(@)]
    /\ amf' = [amf EXCEPT ![w].i = @ + 1, ![w].pc = "metric"]
    /\ UNCHANGED << writer, readers, clock, qry, calls, log, conv, run >>

\* The deferred s.mutex.Unlock(), and the call returns.
AMF_Unlock(w) ==
    /\ amf[w].pc = "unlock"
    /\ writer' = "none"
    /\ amf' = [amf EXCEPT ![w] = AmfIdle]
    /\ UNCHANGED << series, readers, clock, qry, calls, log, conv, run >>

\* ---------------------------------------------------------------- matchers

\* labels.Matcher{Type, Name, Value}; for the two regexp types Value is the
\* pattern.
Matcher(t, n, v) == [Type |-> t, Name |-> n, Value |-> v]

\* The anchored regular expressions the model's matchers use: whether the
\* whole of v matches pattern.
RegexMatches(pattern, v) ==
    CASE pattern = "a|b" -> v \in { "a", "b" }
      [] pattern = ".+"  -> v # ""
      [] pattern = ".*"  -> TRUE
      [] OTHER           -> v = pattern

\* labels.Matcher.Matches.
Matches(m, v) ==
    CASE m.Type = "MatchEqual"     -> v = m.Value
      [] m.Type = "MatchNotEqual"  -> v # m.Value
      [] m.Type = "MatchRegexp"    -> RegexMatches(m.Value, v)
      [] m.Type = "MatchNotRegexp" -> ~RegexMatches(m.Value, v)

\* InMemoryQuerier.matchesLabels: every matcher holds on the value Get gives.
matchesLabels_FirstOnly(seriesLabels, matchers) ==
    Len(matchers) = 0 \/ Matches(matchers[1], LabelsGet(seriesLabels, matchers[1].Name))

matchesLabels(seriesLabels, matchers) ==
    \A i \in 1..Len(matchers) :
        Matches(matchers[i], LabelsGet(seriesLabels, matchers[i].Name))

\* ------------------------------------------------------------------ Select

\* "Filter samples by time range": the samples with mint <= Timestamp <= maxt,
\* in their stored order.
RECURSIVE FilterSamples_HalfOpen(_, _, _)
FilterSamples_HalfOpen(samples, mint, maxt) ==
    IF Len(samples) = 0 THEN << >>
    ELSE LET rest == FilterSamples_HalfOpen(Tail(samples), mint, maxt)
         IN  IF Head(samples).Timestamp >= mint /\ Head(samples).Timestamp < maxt
             THEN << Head(samples) >> \o rest
             ELSE rest

FilterSamples(samples, mint, maxt) ==
    SelectSeq(samples, LAMBDA smp : smp.Timestamp >= mint /\ smp.Timestamp <= maxt)

\* labels.Compare(a, b) < 0: the first differing name or value decides; when
\* one is a prefix of the other the shorter one is the smaller.
LabelsLess(a, b) ==
    LET n == IF Len(a) < Len(b) THEN Len(a) ELSE Len(b)
        differ == { i \in 1..n : a[i] # b[i] }
    IN  IF differ = {}
        THEN Len(a) < Len(b)
        ELSE LET i == CHOOSE j \in differ : \A k \in differ : j <= k
             IN  IF a[i].Name # b[i].Name
                 THEN StrLess(a[i].Name, b[i].Name)
                 ELSE StrLess(a[i].Value, b[i].Value)

\* Whether a slice of series is in the order sort.Slice leaves it in.
SortedSeries_Any(ss) == TRUE

SortedSeries(ss) ==
    \A i \in 1..(Len(ss) - 1) : ~LabelsLess(ss[i + 1].SeriesLabels, ss[i].SeriesLabels)

\* The filtered copy Select makes of one series of the index.
FilteredSeries(ts, mint, maxt) ==
    [SeriesLabels |-> ts.SeriesLabels, Samples |-> FilterSamples(ts.Samples, mint, maxt)]

\* The keys whose series Select appends to matchingSeries.
SelectedKeys_KeepEmpty(idx, mint, maxt, matchers) ==
    { k \in DOMAIN idx : matchesLabels(idx[k].SeriesLabels, matchers) }

SelectedKeys(idx, mint, maxt, matchers) ==
    { k \in DOMAIN idx :
        /\ matchesLabels(idx[k].SeriesLabels, matchers)
        /\ Len(FilterSamples(idx[k].Samples, mint, maxt)) > 0 }

\* A set as the sequences that list it once each.
RECURSIVE SeqsOf(_)
SeqsOf(S) ==
    IF S = {} THEN { << >> }
    ELSE UNION { { << x >> \o t : t \in SeqsOf(S \ {x}) } : x \in S }

\* The slices matchingSeries can be when Select returns: the range over the
\* map visits the series in any order, and sortSeries sorts the slice.
SelectOutcomes(idx, mint, maxt, sortSeries, matchers) ==
    LET all == { [i \in 1..Len(ks) |-> FilteredSeries(idx[ks[i]], mint, maxt)] :
                    ks \in SeqsOf(SelectedKeys(idx, mint, maxt, matchers)) }
    IN  IF sortSeries THEN { ss \in all : SortedSeries(ss) } ELSE all

\* Select's arguments, with the window of the querier it is called on.
Query(mint, maxt, sortSeries, matchers) ==
    [mint |-> mint, maxt |-> maxt, sortSeries |-> sortSeries, matchers |-> matchers]

\* A goroutine gets a querier for [mint, maxt], calls Select on it and waits
\* in q.store.mutex.RLock().
Sel_Call(r, q) ==
    /\ qry[r].pc = "idle"
    /\ qry' = [qry EXCEPT ![r] = [QryIdle EXCEPT !.op = "Select", !.pc = "rlock",
                                                 !.mint = q.mint, !.maxt = q.maxt,
                                                 !.sortSeries = q.sortSeries,
                                                 !.matchers = q.matchers]]
    /\ UNCHANGED << series, writer, readers, clock, amf, calls, log, conv, run >>

\* q.store.mutex.RLock() returns: the first statement of Select, of
\* LabelValues and of LabelNames.
Q_RLock(r) ==
    /\ qry[r].pc = "rlock"
    /\ CanRLock
    /\ readers' = readers \cup {r}
    /\ qry' = [qry EXCEPT ![r].pc = "scan"]
    /\ UNCHANGED << series, writer, clock, amf, calls, log, conv, run >>

\* The scan of the index, the sort, and the series set built from the slice.
Sel_Scan_FilterInPlace(r) ==
    /\ qry[r].pc = "scan"
    /\ qry[r].op = "Select"
    /\ \E ss \in SelectOutcomes(series, qry[r].mint, qry[r].maxt,
                                qry[r].sortSeries, qry[r].matchers) :
           qry' = [qry EXCEPT ![r].result = ss, ![r].pc = "runlock"]
    /\ series' = [k \in DOMAIN series |->
                     IF matchesLabels(series[k].SeriesLabels, qry[r].matchers)
                     THEN FilteredSeries(series[k], qry[r].mint, qry[r].maxt)
                     ELSE series[k]]
    /\ UNCHANGED << writer, readers, clock, amf, calls, log, conv, run >>

Sel_Scan(r) ==
    /\ qry[r].pc = "scan"
    /\ qry[r].op = "Select"
    /\ \E ss \in SelectOutcomes(series, qry[r].mint, qry[r].maxt,
                                qry[r].sortSeries, qry[r].matchers) :
           qry' = [qry EXCEPT ![r].result = ss, ![r].pc = "runlock"]
    /\ UNCHANGED << series, writer, readers, clock, amf, calls, log, conv, run >>

\* The deferred q.store.mutex.RUnlock() of the three methods, and the return.
Q_RUnlock_NoRelease(r) ==
    /\ qry[r].pc = "runlock"
    /\ qry' = [qry EXCEPT ![r].pc = "done"]
    /\ UNCHANGED << series, writer, readers, clock, amf, calls, log, conv, run >>

Q_RUnlock(r) ==
    /\ qry[r].pc = "runlock"
    /\ readers' = readers \ {r}
    /\ qry' = [qry EXCEPT ![r].pc = "done"]
    /\ UNCHANGED << series, writer, clock, amf, calls, log, conv, run >>

\* ------------------------------------------ the series set and the iterator

\* The states of a context.Context: neither cancelled nor expired, cancelled,
\* or past its deadline.
Contexts == { "live", "cancelled", "deadline" }

\* Select is called with a context in state ctx. The body of Select never
\* reads ctx: what follows the call is Q_RLock, Sel_Scan and Q_RUnlock.
Sel_CallCtx(r, q, ctx) ==
    /\ qry[r].pc = "idle"
    /\ qry' = [qry EXCEPT ![r] = [QryIdle EXCEPT !.op = "Select", !.pc = "rlock",
                                                 !.mint = q.mint, !.maxt = q.maxt,
                                                 !.sortSeries = q.sortSeries,
                                                 !.matchers = q.matchers,
                                                 !.ctx = ctx]]
    /\ UNCHANGED << series, writer, readers, clock, amf, calls, log, conv, run >>

\* InMemorySeriesSet.Err: nil, whatever the set.
SeriesSetErr(ss) == "nil"

\* InMemorySeriesSet.At: nil (no series) or the series under the cursor.
SeriesSetAt(ss, current) ==
    IF current < 0 \/ current >= Len(ss) THEN << >> ELSE << ss[current + 1] >>

\* InMemorySeriesSet.Next on the set Select returned, and the At that follows
\* a Next that returned true. A Next on an exhausted set is not modelled.
SS_Next(r) ==
    /\ qry[r].pc = "done"
    /\ qry[r].op = "Select"
    /\ qry[r].current < Len(qry[r].result)
    /\ LET current == qry[r].current + 1
           at == SeriesSetAt(qry[r].result, current)
       IN  qry' = [qry EXCEPT ![r].current = current,
                              ![r].seen = IF current < Len(qry[r].result)
                                          THEN Append(@, at[1].SeriesLabels)
                                          ELSE @]
    /\ UNCHANGED << series, writer, readers, clock, amf, calls, log, conv, run >>

\* TimeSeries.Iterator: an iterator on the samples of the series, before the
\* first of them.
Iterator_AtFirst(ts) ==
    [NoIterator EXCEPT !.open = TRUE, !.samples = ts.Samples, !.current = 0]

Iterator(ts) == [NoIterator EXCEPT !.open = TRUE, !.samples = ts.Samples, !.current = -1]

\* The goroutine asks the series At returns for its iterator.
Series_Iterator(r) ==
    /\ qry[r].pc = "done"
    /\ SeriesSetAt(qry[r].result, qry[r].current) # << >>
    /\ qry' = [qry EXCEPT ![r].it =
                  [Iterator(SeriesSetAt(qry[r].result, qry[r].current)[1])
                      EXCEPT !.of = qry[r].current]]
    /\ UNCHANGED << series, writer, readers, clock, amf, calls, log, conv, run >>

\* InMemorySeriesIterator.At: (0, 0) off the samples, else the sample.
IteratorAt(it) ==
    IF it.current < 0 \/ it.current >= Len(it.samples)
    THEN << 0, 0 >>
    ELSE << it.samples[it.current + 1].Timestamp, it.samples[it.current + 1].Value >>

\* InMemorySeriesIterator.Next: it.current++, and ValNone past the last sample.
IteratorNext(it) ==
    LET current == it.current + 1
        ret == IF current >= Len(it.samples) THEN ValNone ELSE ValFloat
    IN  [it EXCEPT !.current = current,
                   !.ret = ret,
                   !.op = "Next", !.arg = 0, !.prev = it.current,
                   !.nexts = IF @ < 0 THEN @ ELSE @ + 1,
                   !.got = IF it.nexts >= 0 /\ ret = ValFloat
                           THEN Append(@, IteratorAt([it EXCEPT !.current = current]))
                           ELSE @]

\* The loop of Seek from index i on: the first index whose sample has
\* Timestamp >= t, or len(it.samples) when the loop ends without one.
RECURSIVE SeekFrom(_, _, _)
SeekFrom(samples, i, t) ==
    IF i >= Len(samples) THEN Len(samples)
    ELSE IF samples[i + 1].Timestamp >= t THEN i
    ELSE SeekFrom(samples, i + 1, t)

\* The index Seek(t) leaves in it.current: the range starts at index 0.
SeekPosition_After(samples, t) ==
    LET P == { i \in 0..(Len(samples) - 1) : samples[i + 1].Timestamp > t }
    IN  IF P = {} THEN Len(samples) ELSE CHOOSE i \in P : \A j \in P : i <= j

SeekPosition(samples, t) == SeekFrom(samples, 0, t)

\* InMemorySeriesIterator.Seek.
IteratorSeek(it, t) ==
    LET current == SeekPosition(it.samples, t)
    IN  [it EXCEPT !.current = current,
                   !.ret = IF current >= Len(it.samples) THEN ValNone ELSE ValFloat,
                   !.op = "Seek", !.arg = t, !.prev = it.current,
                   !.nexts = -1, !.got = << >>]

\* The goroutine calls Next on its iterator, at most MaxOverrun times past the
\* last sample.
It_Next(r) ==
    /\ qry[r].it.open
    /\ qry[r].it.current < Len(qry[r].it.samples) + MaxOverrun - 1
    /\ qry' = [qry EXCEPT ![r].it = IteratorNext(@)]
    /\ UNCHANGED << series, writer, readers, clock, amf, calls, log, conv, run >>

\* The goroutine calls Seek(t) on its iterator.
It_Seek(r, t) ==
    /\ qry[r].it.open
    /\ qry' = [qry EXCEPT ![r].it = IteratorSeek(@, t)]
    /\ UNCHANGED << series, writer, readers, clock, amf, calls, log, conv, run >>

\* ------------------------------------------------ LabelValues, LabelNames

\* sort.Strings on the keys of a set: the one ascending sequence of them.
SortStrings(S) ==
    CHOOSE q \in SeqsOf(S) : \A i \in 1..(Len(q) - 1) : StrLess(q[i], q[i + 1])

\* What LabelValues returns: the non-empty values of name on the matching series.
LabelValuesOf_KeepEmpty(idx, name, matchers) ==
    SortStrings({ LabelsGet(idx[k].SeriesLabels, name) :
                    k \in { j \in DOMAIN idx : matchesLabels(idx[j].SeriesLabels, matchers) } })

LabelValuesOf(idx, name, matchers) ==
    SortStrings({ LabelsGet(idx[k].SeriesLabels, name) :
                    k \in { j \in DOMAIN idx : matchesLabels(idx[j].SeriesLabels, matchers) } }
                \ { "" })

\* The error LabelValues and LabelNames return: nil, whatever the arguments.
QuerierErr(values) == "nil"

\* What LabelNames returns: the label names of the matching series.
LabelNamesOf_WithoutName(idx, matchers) ==
    SortStrings(UNION { { idx[k].SeriesLabels[i].Name : i \in 1..Len(idx[k].SeriesLabels) } :
                          k \in { j \in DOMAIN idx : matchesLabels(idx[j].SeriesLabels, matchers) } }
                \ { NameLabel })

LabelNamesOf(idx, matchers) ==
    SortStrings(UNION { { idx[k].SeriesLabels[i].Name : i \in 1..Len(idx[k].SeriesLabels) } :
                          k \in { j \in DOMAIN idx : matchesLabels(idx[j].SeriesLabels, matchers) } })

\* A goroutine calls LabelValues(name, matchers) and waits in RLock().
LV_Call(r, name, matchers) ==
    /\ qry[r].pc = "idle"
    /\ qry' = [qry EXCEPT ![r] = [QryIdle EXCEPT !.op = "LabelValues", !.pc = "rlock",
                                                 !.name = name, !.matchers = matchers]]
    /\ UNCHANGED << series, writer, readers, clock, amf, calls, log, conv, run >>

\* The scan of LabelValues and the sort of what it collected.
LV_Scan(r) ==
    /\ qry[r].pc = "scan"
    /\ qry[r].op = "LabelValues"
    /\ qry' = [qry EXCEPT ![r].values = LabelValuesOf(series, qry[r].name, qry[r].matchers),
                          ![r].pc = "runlock"]
    /\ UNCHANGED << series, writer, readers, clock, amf, calls, log, conv, run >>

\* A goroutine calls LabelNames(matchers) and waits in RLock().
LN_Call(r, matchers) ==
    /\ qry[r].pc = "idle"
    /\ qry' = [qry EXCEPT ![r] = [QryIdle EXCEPT !.op = "LabelNames", !.pc = "rlock",
                                                 !.matchers = matchers]]
    /\ UNCHANGED << series, writer, readers, clock, amf, calls, log, conv, run >>

\* The scan of LabelNames and the sort of what it collected.
LN_Scan(r) ==
    /\ qry[r].pc = "scan"
    /\ qry[r].op = "LabelNames"
    /\ qry' = [qry EXCEPT ![r].values = LabelNamesOf(series, qry[r].matchers),
                          ![r].pc = "runlock"]
    /\ UNCHANGED << series, writer, readers, clock, amf, calls, log, conv, run >>

\* ------------------------------------------------------------------ inputs

JobA == Pair("job", "a")

JobB == Pair("job", "b")

MethodGet == Pair("method", "GET")

\* The batches of the ingestion-centred specification: the same two labels of
\* "up" in the two orders with different values, the second with a second
\* family beside it.
Batches ==
    { ("up" :> Family("GAUGE", << GaugeMetric(<< JobA, MethodGet >>, 1) >>)),
      ("up" :> Family("GAUGE", << GaugeMetric(<< MethodGet, JobA >>, 2) >>)
         @@ "www" :> Family("COUNTER", << CounterMetric(<< >>, 4) >>)) }

\* The batches of the query-centred specification: three series, two of them
\* of "up".
BatchesQ ==
    { ("up" :> Family("GAUGE", << GaugeMetric(<< JobA, MethodGet >>, 1) >>)),
      ("up" :> Family("GAUGE", << GaugeMetric(<< JobB >>, 3) >>)
         @@ "www" :> Family("COUNTER", << CounterMetric(<< >>, 4) >>)) }

\* The matcher lists a caller hands to Select.
MatcherLists ==
    { << >>,
      << Matcher("MatchEqual", "job", "a") >>,
      << Matcher("MatchNotEqual", "job", "a") >>,
      << Matcher("MatchRegexp", "job", "a|b") >>,
      << Matcher("MatchNotRegexp", "job", "a|b") >>,
      << Matcher("MatchEqual", "method", "") >>,
      << Matcher("MatchEqual", "__name__", "up"), Matcher("MatchNotEqual", "job", "b") >> }

Times == 0..MaxClock

\* The Select call of the ingestion-centred specification: the whole window
\* with no matcher, sorted.
Queries == { Query(0, MaxClock, TRUE, << >>) }

\* The Select calls of the query-centred specification: every matcher list on
\* the whole window, and every window with no matcher and with one.
QueriesQ ==
    { Query(0, MaxClock, srt, ms) : srt \in BOOLEAN, ms \in MatcherLists }
    \cup { Query(mint, maxt, FALSE, ms) :
             mint \in Times, maxt \in Times,
             ms \in { << >>, << Matcher("MatchRegexp", "job", ".+") >> } }

\* ----------------------------------------------------------- specification

\* The steps of AddMetricFamilies after the call.
AMF_Steps(w) ==
    \/ AMF_Lock(w)
    \/ AMF_Now(w)
    \/ AMF_Family(w)
    \/ AMF_Metric(w)
    \/ AMF_Append(w)
    \/ AMF_Trim(w)
    \/ AMF_Unlock(w)

\* The steps of a querier call after the call.
Qry_Steps(r) ==
    \/ Q_RLock(r)
    \/ Sel_Scan(r)
    \/ LV_Scan(r)
    \/ LN_Scan(r)
    \/ Q_RUnlock(r)

\* A goroutine calls one of the three methods of the querier.
Qry_Call(r, qs, names, mss) ==
    \/ \E q \in qs : Sel_Call(r, q)
    \/ \E name \in names, matchers \in mss : LV_Call(r, name, matchers)
    \/ \E matchers \in mss : LN_Call(r, matchers)

\* Concurrent ingestion by every writer, with a reader beside it.
Next ==
    \/ Tick
    \/ \E w \in Writers : \E families \in Batches : AMF_Call(w, families, MaxCalls)
    \/ \E w \in Writers : AMF_Steps(w)
    \/ \E r \in Readers : Qry_Call(r, Queries, { "job" }, { << >> })
    \/ \E r \in Readers : Qry_Steps(r)

Spec == Init /\ [][Next]_vars

\* One ingesting goroutine, and a reader that asks every query of QueriesQ.
NextQ ==
    \/ Tick
    \/ \E families \in BatchesQ : AMF_Call("w1", families, MaxCalls)
    \/ AMF_Steps("w1")
    \/ \E r \in Readers : Qry_Call(r, QueriesQ, { "job", "method", "__name__" },
                                   { << >>, << Matcher("MatchEqual", "job", "a") >> })
    \/ \E r \in Readers : Qry_Steps(r)

SpecQuery == Init /\ [][NextQ]_vars

\* ------------------------------------------------- a store close to its cap

\* One metric of AddMetricFamilies' loop body, from the labels to the
\* retention check, on the index and the history.
IngestMetric(st, name, family, i, ts, call) ==
    LET metric == family.Metric[i]
        lbls == CHOOSE l \in SortLabels(BuildLabels(name, metric)) : TRUE
        seriesKey == LabelsString(lbls)
        smp == Sample(ts, ExtractValue(family.Type, metric))
        appended == AppendSample(GetOrCreate(st.series, seriesKey, lbls), seriesKey, smp)
    IN  [series |-> [appended EXCEPT ![seriesKey].Samples = TrimSamples(@)],
         log |-> Append(st.log, [call |-> call, name |-> name, Label |-> metric.Label,
                                 key |-> seriesKey, sample |-> smp])]

\* The family of the c-th of the earlier calls: the gauge "up", no labels.
EarlierFamily(c) == Family("GAUGE", << GaugeMetric(<< >>, c % 3) >>)

\* The index and the history after the calls from..to, each ingesting
\* EarlierFamily at time 0, one after the other.
RECURSIVE AfterCalls(_, _, _)
AfterCalls(st, from, to) ==
    IF from > to THEN st
    ELSE IF from = to THEN IngestMetric(st, "up", EarlierFamily(from), 1, 0, from)
    ELSE LET mid == (from + to) \div 2
         IN  CHOOSE after \in { AfterCalls(half, mid + 1, to) :
                                  half \in { AfterCalls(st, from, mid) } } : TRUE

\* The number of earlier calls: one short of the retention cap.
EarlierCalls == RetentionCap - 1

\* A store that has served EarlierCalls calls since NewMetricStore.
InitR ==
    /\ LET st == AfterCalls([series |-> << >>, log |-> << >>], 1, EarlierCalls)
       IN  series = st.series /\ log = st.log
    /\ writer = "none"
    /\ readers = {}
    /\ clock = 0
    /\ amf = [w \in Writers |-> AmfIdle]
    /\ qry = [r \in Readers |-> QryIdle]
    /\ calls = EarlierCalls
    /\ conv = ConvIdle
    /\ run = RunIdle

Up7 == GaugeMetric(<< >>, 7)

Up8 == GaugeMetric(<< >>, 8)

\* The batches of the retention-centred specification: one or two metrics of
\* the series "up", and one that also has a metric of another series.
BatchesR ==
    { ("up" :> Family("GAUGE", << Up7 >>)),
      ("up" :> Family("GAUGE", << Up8, Up7 >>)
         @@ "www" :> Family("COUNTER", << CounterMetric(<< >>, 4) >>)) }

\* Its Select call: the whole window.
QueriesR == { Query(0, MaxClock, FALSE, << >>) }

\* Ingestion into a series one sample short of the cap, with a reader beside
\* the ingesting goroutine.
NextR ==
    \/ Tick
    \/ \E families \in BatchesR : AMF_Call("w1", families, EarlierCalls + MaxCalls)
    \/ AMF_Steps("w1")
    \/ \E r \in Readers : Qry_Call(r, QueriesR, { "job" }, { << >> })
    \/ \E r \in Readers : Qry_Steps(r)

SpecRetention == InitR /\ [][NextR]_vars

\* ----------------------------------------------------- convertPromQLResult

\* Largest number of samples of a vector, of series of a matrix and of points
\* of a series that the results handed to convertPromQLResult have.
MaxResultLen == 2

\* MetricResult{MetricName, Labels, Value, Timestamp}.
MetricResult(name, lbls, v, t) ==
    [MetricName |-> name, Labels |-> lbls, Value |-> v, Timestamp |-> t]

\* The map the loop "for _, label := range metric" fills: every label of the
\* metric under its name, a later label replacing an earlier one of that name.
LabelMap_WithoutName(ls) ==
    [n \in { ls[i].Name : i \in 1..Len(ls) } \ { NameLabel } |->
        ls[CHOOSE i \in 1..Len(ls) :
              /\ ls[i].Name = n
              /\ \A j \in (i + 1)..Len(ls) : ls[j].Name # n].Value]

LabelMap(ls) ==
    [n \in { ls[i].Name : i \in 1..Len(ls) } |->
        ls[CHOOSE i \in 1..Len(ls) :
              /\ ls[i].Name = n
              /\ \A j \in (i + 1)..Len(ls) : ls[j].Name # n].Value]

\* case promql.Vector: one row per sample.
VectorRows(v) ==
    [i \in 1..Len(v) |->
        MetricResult(LabelsGet(v[i].Metric, NameLabel), LabelMap(v[i].Metric), v[i].F, v[i].T)]

\* case promql.Scalar: one row.
ScalarRows_NoTimestamp(v) == << MetricResult("scalar", LabelMap(<< >>), v.V, 0) >>

ScalarRows(v) == << MetricResult("scalar", LabelMap(<< >>), v.V, v.T) >>

\* The row of a series of a matrix: its latest float.
MatrixRow_Oldest(ss) ==
    MetricResult(LabelsGet(ss.Metric, NameLabel), LabelMap(ss.Metric),
                 ss.Floats[1].F, ss.Floats[1].T)

MatrixRow(ss) ==
    MetricResult(LabelsGet(ss.Metric, NameLabel), LabelMap(ss.Metric),
                 ss.Floats[Len(ss.Floats)].F, ss.Floats[Len(ss.Floats)].T)

\* case promql.Matrix: one row per series that has a float.
MatrixRows(v) ==
    LET kept == SelectSeq(v, LAMBDA ss : Len(ss.Floats) > 0)
    IN  [i \in 1..Len(kept) |-> MatrixRow(kept[i])]

\* default: no rows and the error "unsupported result type".
Unsupported_Silent(v) == [rows |-> << >>, err |-> ""]

Unsupported(v) == [rows |-> << >>, err |-> "unsupported result type"]

\* MetricStore.convertPromQLResult: the rows and the error it returns.
convertPromQLResult(result) ==
    CASE result.type = "Vector" -> [rows |-> VectorRows(result.Vector), err |-> ""]
      [] result.type = "Scalar" -> [rows |-> ScalarRows(result.Scalar), err |-> ""]
      [] result.type = "Matrix" -> [rows |-> MatrixRows(result.Matrix), err |-> ""]
      [] OTHER                  -> Unsupported(result)

\* displayResults: the labels printed for a row, "excluding __name__".
DisplayedLabels(row) ==
    { << k, row.Labels[k] >> : k \in DOMAIN row.Labels \ { NameLabel } }

\* The label sets of the samples and series of a result.
ResultMetrics ==
    { << >>,
      << Lbl(NameLabel, "up") >>,
      << Lbl(NameLabel, "up"), Lbl("method", "GET") >>,
      << Lbl("job", "a") >> }

\* The sequences over S of length at most n.
SeqsUpTo(S, n) == UNION { [1..m -> S] : m \in 0..n }

\* promql.Sample{Metric, T, F} of an instant vector evaluated at time 1.
VectorSamples == [Metric : ResultMetrics, T : { 1 }, F : { 3, 5 }]

\* promql.FPoint{T, F}.
FPoints == [T : { 0, 1 }, F : { 3 }]

\* promql.Series{Metric, Floats}; a series whose points are all histograms
\* has no Floats.
MatrixSeries ==
    [Metric : { << Lbl(NameLabel, "up") >>, << Lbl("job", "a") >> },
     Floats : { fs \in SeqsUpTo(FPoints, MaxResultLen) :
                  \A i \in 1..(Len(fs) - 1) : fs[i].T < fs[i + 1].T }]

\* The promql.Result values handed to convertPromQLResult: a vector, a
\* scalar, a matrix, a string, or no value.
Results ==
    { [NoValue EXCEPT !.type = "Vector", !.Vector = v] :
        v \in SeqsUpTo(VectorSamples, MaxResultLen) }
    \cup { [NoValue EXCEPT !.type = "Scalar", !.Scalar = v] : v \in [T : { 0, 1 }, V : { 3, 5 }] }
    \cup { [NoValue EXCEPT !.type = "Matrix", !.Matrix = v] :
             v \in SeqsUpTo(MatrixSeries, MaxResultLen) }
    \cup { [NoValue EXCEPT !.type = "String", !.String = "www"], NoValue }

\* A store on which convertPromQLResult is about to be called on a result.
InitC ==
    /\ series = << >>
    /\ writer = "none"
    /\ readers = {}
    /\ clock = 0
    /\ amf = [w \in Writers |-> AmfIdle]
    /\ qry = [r \in Readers |-> QryIdle]
    /\ calls = 0
    /\ log = << >>
    /\ conv \in { [ConvIdle EXCEPT !.pc = "call", !.result = res] : res \in Results }
    /\ run = RunIdle

\* The call of convertPromQLResult returns.
Convert ==
    /\ conv.pc = "call"
    /\ LET out == convertPromQLResult(conv.result)
       IN  conv' = [conv EXCEPT !.pc = "done", !.rows = out.rows, !.err = out.err]
    /\ UNCHANGED << series, writer, readers, clock, amf, qry, calls, log, run >>

NextC == Convert

SpecConv == InitC /\ [][NextC]_vars

\* ------------------------------------------ a batch with a malformed instance

\* A dto.LabelPair whose Name is nil or empty: GetName() gives "", which is no
\* label name.
NoNamePair == Pair("", "b")

\* The batches of the specification below: a family of three instances whose
\* second has a label without a name, and a family of one well-formed instance.
BatchesM ==
    { ("up" :> Family("GAUGE", << GaugeMetric(<< JobA >>, 1),
                                  GaugeMetric(<< NoNamePair >>, 2),
                                  GaugeMetric(<< JobB >>, 3) >>)),
      ("www" :> Family("COUNTER", << CounterMetric(<< MethodGet >>, 4) >>)) }

\* Its Select calls: the whole window, unsorted and sorted.
QueriesM == { Query(0, MaxClock, srt, << >>) : srt \in BOOLEAN }

\* One ingesting goroutine whose batches may hold a malformed instance, and a
\* reader beside it.
NextM ==
    \/ Tick
    \/ \E families \in BatchesM : AMF_Call("w1", families, MaxCalls)
    \/ AMF_Steps("w1")
    \/ \E r \in Readers : Qry_Call(r, QueriesM, { "job", "" }, { << >> })
    \/ \E r \in Readers : Qry_Steps(r)

SpecMalformed == Init /\ [][NextM]_vars

\* ------------------------------------------------ iterating what Select returned

\* The AddMetricFamilies calls the store has served before the reader comes:
\* one instance of up{job="a", method="GET"} at every reading of the clock and
\* one more at the last reading, then one of up{job="b"} and one of www.
IterCalls ==
    [c \in 1..(MaxClock + 1) |->
        [name |-> "up", ts |-> c - 1,
         family |-> Family("GAUGE", << GaugeMetric(<< JobA, MethodGet >>, c) >>)]]
    \o << [name |-> "up", ts |-> MaxClock,
           family |-> Family("GAUGE", << GaugeMetric(<< MethodGet, JobA >>, 7) >>)],
          [name |-> "up", ts |-> MaxClock,
           family |-> Family("GAUGE", << GaugeMetric(<< JobB >>, 3) >>)],
          [name |-> "www", ts |-> MaxClock,
           family |-> Family("COUNTER", << CounterMetric(<< >>, 4) >>)] >>

\* The index and the history after the first n of these calls.
RECURSIVE AfterIterCalls(_)
AfterIterCalls(n) ==
    IF n = 0 THEN [series |-> << >>, log |-> << >>]
    ELSE IngestMetric(AfterIterCalls(n - 1), IterCalls[n].name, IterCalls[n].family,
                      1, IterCalls[n].ts, n)

\* A store that has served the calls of IterCalls since NewMetricStore.
InitI ==
    /\ LET st == AfterIterCalls(Len(IterCalls))
       IN  series = st.series /\ log = st.log
    /\ writer = "none"
    /\ readers = {}
    /\ clock = MaxClock
    /\ amf = [w \in Writers |-> AmfIdle]
    /\ qry = [r \in Readers |-> QryIdle]
    /\ calls = Len(IterCalls)
    /\ conv = ConvIdle
    /\ run = RunIdle

\* Its Select calls: every window, unsorted and sorted, with no matcher.
QueriesI ==
    { Query(mint, maxt, srt, << >>) : mint \in Times, maxt \in Times, srt \in BOOLEAN }

\* The arguments of Seek: every reading of the clock, and one later.
SeekTimes == 0..(MaxClock + 1)

\* A reader that calls Select with a context in any state, walks the returned
\* set and iterates over its series.
NextI ==
    \/ \E r \in Readers : \E q \in QueriesI, ctx \in Contexts : Sel_CallCtx(r, q, ctx)
    \/ \E r \in Readers : Q_RLock(r)
    \/ \E r \in Readers : Sel_Scan(r)
    \/ \E r \in Readers : Q_RUnlock(r)
    \/ \E r \in Readers : SS_Next(r)
    \/ \E r \in Readers : Series_Iterator(r)
    \/ \E r \in Readers : It_Next(r)
    \/ \E r \in Readers : \E t \in SeekTimes : It_Seek(r, t)

SpecIter == InitI /\ [][NextI]_vars

\* ------------------------------------------------ label values and label names

\* A label that is there with the empty string for its value.
JobEmpty == Pair("job", "")

\* The batches of the specification below: two instances of up, one of them
\* with an empty job, and two instances of www, one of them with two labels
\* called job.
BatchesL ==
    { ("up" :> Family("GAUGE", << GaugeMetric(<< JobA >>, 1),
                                  GaugeMetric(<< JobEmpty >>, 2) >>)),
      ("www" :> Family("COUNTER", << CounterMetric(<< JobB, MethodGet >>, 4),
                                     CounterMetric(<< JobB, JobA >>, 5) >>)) }

\* The matcher lists of its calls: none, one on the name, one that wants a
\* job, and one that no series of BatchesL satisfies.
MatcherListsL ==
    { << >>,
      << Matcher("MatchEqual", "__name__", "up") >>,
      << Matcher("MatchRegexp", "job", ".+") >>,
      << Matcher("MatchEqual", "method", "POST") >> }

\* One ingesting goroutine, and a reader that calls LabelValues or LabelNames
\* on a querier for [0, 0].
NextL ==
    \/ Tick
    \/ \E families \in BatchesL : AMF_Call("w1", families, MaxCalls)
    \/ AMF_Steps("w1")
    \/ \E r \in Readers : \E name \in { "job", "method", "__name__" },
                             matchers \in MatcherListsL : LV_Call(r, name, matchers)
    \/ \E r \in Readers : \E matchers \in MatcherListsL : LN_Call(r, matchers)
    \/ \E r \in Readers : Q_RLock(r)
    \/ \E r \in Readers : LV_Scan(r)
    \/ \E r \in Readers : LN_Scan(r)
    \/ \E r \in Readers : Q_RUnlock(r)

SpecLabels == Init /\ [][NextL]_vars

\* ------------------------------------------------ ingestion of every kind of batch

\* A label pair that is called as the name label is.
NamePair == Pair("__name__", "www")

\* The batches of the specification below.  The first two have an instance of
\* each of four declared types, with a payload of another type beside the one
\* of the declared type; the third has a counter instance without a counter
\* payload, followed by one with it, and a family of a type the switch does
\* not name; the fourth has an instance with a label called __name__ and one
\* with two labels called job; the fifth is the empty mapping, and the sixth
\* a family without instances.
BatchesT ==
    { ("up" :> Family("HISTOGRAM",
                      << Metric(<< >>, <<>>, <<5>>, << Observations(3, 7) >>, <<>>, <<>>) >>)
         @@ "www" :> Family("SUMMARY",
                      << Metric(<< JobA >>, <<1>>, <<>>, <<>>, << Observations(2, 9) >>, <<>>) >>)),
      ("up" :> Family("UNTYPED",
                      << Metric(<< >>, <<>>, <<>>, <<>>, <<>>, <<8>>) >>)
         @@ "www" :> Family("COUNTER",
                      << Metric(<< JobA >>, <<4>>, <<6>>, <<>>, <<>>, <<>>) >>)),
      ("up" :> Family("COUNTER", << GaugeMetric(<< JobA >>, 6), CounterMetric(<< JobB >>, 4) >>)
         @@ "www" :> Family("GAUGE_HISTOGRAM",
                      << Metric(<< >>, <<>>, <<>>, << Observations(3, 7) >>, <<>>, <<>>) >>)),
      ("up" :> Family("GAUGE", << GaugeMetric(<< NamePair >>, 1),
                                  GaugeMetric(<< JobA, JobB >>, 2) >>)),
      << >>,
      ("up" :> Family("GAUGE", << >>)) }

\* One goroutine that calls AddMetricFamilies with these batches, one call
\* after the other, as collectAllMetrics does.
NextT ==
    \/ Tick
    \/ \E families \in BatchesT : AMF_Call("w1", families, MaxCalls)
    \/ AMF_Steps("w1")

SpecIngest == Init /\ [][NextT]_vars

\* ------------------------------------------------------------ ExecutePromQL

\* EngineOpts.LookbackDelta, in milliseconds: how far back from the time of
\* the evaluation an instant selector looks for the sample of a series.
LookbackDelta == 300000

\* parser.ParseExpr on the query strings of the model: a metric name is a
\* vector selector; the empty string and a selector whose brace is not closed
\* are syntax errors.
ParseExpr(query) ==
    IF query # "" /\ \E i \in 1..Len(StrOrder) : StrOrder[i] = query
    THEN [ok |-> TRUE, name |-> query]
    ELSE [ok |-> FALSE, name |-> ""]

\* What Exec gives for the selector of a metric name at time ts, from what
\* Select returned to it: for every series the value of its newest sample in
\* the window, with the time of the evaluation for its timestamp.
InstantVector(ss, ts) ==
    [i \in 1..Len(ss) |->
        [Metric |-> ss[i].SeriesLabels,
         T |-> ts,
         F |-> ss[i].Samples[Len(ss[i].Samples)].Value]]

\* ExecutePromQL(ctx, query) is called.
EP_Call(query, ctx) ==
    /\ conv.pc = "idle"
    /\ conv' = [ConvIdle EXCEPT !.pc = "parse", !.query = query, !.ctx = ctx,
                                !.logged = Len(log)]
    /\ UNCHANGED << series, writer, readers, clock, amf, qry, calls, log, run >>

\* _, err := parser.ParseExpr(query); on an error ExecutePromQL returns nil
\* rows and "invalid PromQL query".
EP_Parse_IgnoreError ==
    /\ conv.pc = "parse"
    /\ conv' = [conv EXCEPT !.pc = "create"]
    /\ UNCHANGED << series, writer, readers, clock, amf, qry, calls, log, run >>

EP_Parse ==
    /\ conv.pc = "parse"
    /\ conv' = IF ParseExpr(conv.query).ok
               THEN [conv EXCEPT !.pc = "create"]
               ELSE [conv EXCEPT !.pc = "done", !.rows = << >>,
                                 !.err = "invalid PromQL query"]
    /\ UNCHANGED << series, writer, readers, clock, amf, qry, calls, log, run >>

\* q, err := s.engine.NewInstantQuery(ctx, s.storage, nil, query, time.Now()).
\* The engine parses the query itself and may refuse it for reasons of its
\* own; on an error ExecutePromQL returns nil rows and "failed to create
\* query".
EP_NewInstantQuery ==
    /\ conv.pc = "create"
    /\ \E accepted \in { ok \in BOOLEAN : ok => ParseExpr(conv.query).ok } :
           conv' = IF accepted
                   THEN [conv EXCEPT !.pc = "exec", !.ts = clock, !.created = @ + 1]
                   ELSE [conv EXCEPT !.pc = "done", !.rows = << >>, !.created = @ + 1,
                                     !.err = "failed to create query"]
    /\ UNCHANGED << series, writer, readers, clock, amf, qry, calls, log, run >>

\* result := q.Exec(ctx).  With a context that is done the engine reports an
\* error and ExecutePromQL returns nil rows and "query execution failed";
\* else it gets a querier for [ts - LookbackDelta, ts] from s.storage, calls
\* Select on it with the matcher on the name, which takes the read lock for
\* the time of the call, and evaluates the selector at ts.
EP_Exec_Retry ==
    /\ conv.pc = "exec"
    /\ IF conv.ctx # "live"
       THEN conv' = IF conv.ran = 0
                    THEN [conv EXCEPT !.ran = @ + 1]
                    ELSE [conv EXCEPT !.pc = "done", !.rows = << >>, !.ran = @ + 1,
                                      !.err = "query execution failed"]
       ELSE /\ CanRLock
            /\ \E ss \in SelectOutcomes(series, conv.ts - LookbackDelta, conv.ts, FALSE,
                                        << Matcher("MatchEqual", NameLabel,
                                                   ParseExpr(conv.query).name) >>) :
                   conv' = [conv EXCEPT !.pc = "call", !.ran = @ + 1, !.selects = @ + 1,
                                        !.result = [NoValue EXCEPT
                                                      !.type = "Vector",
                                                      !.Vector = InstantVector(ss, conv.ts)]]
    /\ UNCHANGED << series, writer, readers, clock, amf, qry, calls, log, run >>

EP_Exec ==
    /\ conv.pc = "exec"
    /\ IF conv.ctx # "live"
       THEN conv' = [conv EXCEPT !.pc = "done", !.rows = << >>, !.ran = @ + 1,
                                 !.err = "query execution failed"]
       ELSE /\ CanRLock
            /\ \E ss \in SelectOutcomes(series, conv.ts - LookbackDelta, conv.ts, FALSE,
                                        << Matcher("MatchEqual", NameLabel,
                                                   ParseExpr(conv.query).name) >>) :
                   conv' = [conv EXCEPT !.pc = "call", !.ran = @ + 1, !.selects = @ + 1,
                                        !.result = [NoValue EXCEPT
                                                      !.type = "Vector",
                                                      !.Vector = InstantVector(ss, conv.ts)]]
    /\ UNCHANGED << series, writer, readers, clock, amf, qry, calls, log, run >>

\* The batches of the specification below: the metric up with no label, and
\* up with a label beside another metric.
BatchesE ==
    { ("up" :> Family("GAUGE", << GaugeMetric(<< >>, 8) >>)),
      ("up" :> Family("GAUGE", << GaugeMetric(<< JobA >>, 1) >>)
         @@ "www" :> Family("COUNTER", << CounterMetric(<< >>, 4) >>)) }

\* Its query strings: two selectors and two strings that do not parse.
QueriesE == { "up", "www", "up{", "" }

\* One ingesting goroutine and one ExecutePromQL call.
NextE ==
    \/ Tick
    \/ \E families \in BatchesE : AMF_Call("w1", families, MaxCalls)
    \/ AMF_Steps("w1")
    \/ \E query \in QueriesE, ctx \in Contexts : EP_Call(query, ctx)
    \/ EP_Parse
    \/ EP_NewInstantQuery
    \/ EP_Exec
    \/ Convert

SpecExec == Init /\ [][NextE]_vars

\* ------------------------------------------------------- fair scheduling

\* The batch of the calls of the specification below.
BatchesF == { ("up" :> Family("GAUGE", << GaugeMetric(<< JobA >>, 1) >>)) }

\* Every writer calls AddMetricFamilies, MaxCalls times in all, and a reader
\* calls one of the three methods of a querier.
NextF ==
    \/ \E w \in Writers : \E families \in BatchesF : AMF_Call(w, families, MaxCalls)
    \/ \E w \in Writers : AMF_Steps(w)
    \/ \E r \in Readers : Qry_Call(r, Queries, { "job" }, { << >> })
    \/ \E r \in Readers : Qry_Steps(r)

\* The Go scheduler runs every goroutine that can run, and the mutex wakes a
\* goroutine that waits for it when it is free: a call whose next step stays
\* possible takes it.
SpecFair ==
    /\ Init
    /\ [][NextF]_vars
    /\ \A w \in Writers : WF_vars(AMF_Steps(w))
    /\ \A r \in Readers : WF_vars(Qry_Steps(r))

\* -------------------------------------------------------- collectAllMetrics

\* components, in the order of the loop.
Components == << "apiserver", "kubelet", "node", "scheduler", "controller-manager" >>

\* The goroutine of main, which runs collectAllMetrics and, through it,
\* AddMetricFamilies.
Main == "w1"

\* collectAllMetrics is called.
CA_Call ==
    /\ run.pc = "idle"
    /\ run' = [RunIdle EXCEPT !.pc = "next", !.i = 1]
    /\ UNCHANGED << series, writer, readers, clock, amf, qry, calls, log, conv >>

\* The loop gets to a component and calls collectComponentMetrics for it.
CA_Start(c) ==
    /\ run.pc = "next"
    /\ run.i <= Len(Components)
    /\ c = Components[run.i]
    /\ run' = [run EXCEPT !.pc = "collecting", !.attempted = Append(@, c)]
    /\ UNCHANGED << series, writer, readers, clock, amf, qry, calls, log, conv >>

\* collectComponentMetrics returns an error: continue with the next component.
CA_Failed_Abort ==
    /\ run.pc = "collecting"
    /\ run' = [run EXCEPT !.pc = "done", !.err = "failed",
                          !.outcomes = Append(@, "failed"),
                          !.batches = Append(@, << >>), !.callOf = Append(@, 0)]
    /\ UNCHANGED << series, writer, readers, clock, amf, qry, calls, log, conv >>

CA_Failed ==
    /\ run.pc = "collecting"
    /\ run' = [run EXCEPT !.pc = "next", !.i = @ + 1,
                          !.outcomes = Append(@, "failed"),
                          !.batches = Append(@, << >>), !.callOf = Append(@, 0)]
    /\ UNCHANGED << series, writer, readers, clock, amf, qry, calls, log, conv >>

\* collectComponentMetrics returns nil families and no error: nothing is
\* added, and the loop goes to the next component.
CA_Nil ==
    /\ run.pc = "collecting"
    /\ run' = [run EXCEPT !.pc = "next", !.i = @ + 1,
                          !.outcomes = Append(@, "nil"),
                          !.batches = Append(@, << >>), !.callOf = Append(@, 0)]
    /\ UNCHANGED << series, writer, readers, clock, amf, qry, calls, log, conv >>

\* collectComponentMetrics returns families: store.AddMetricFamilies(families)
\* is called.
CA_Collected(families) ==
    /\ run.pc = "collecting"
    /\ amf[Main].pc = "idle"
    /\ calls' = calls + 1
    /\ amf' = [amf EXCEPT ![Main] = [AmfIdle EXCEPT !.pc = "lock", !.call = calls + 1,
                                                    !.families = families]]
    /\ run' = [run EXCEPT !.pc = "ingest",
                          !.outcomes = Append(@, "ok"),
                          !.batches = Append(@, families), !.callOf = Append(@, calls + 1)]
    /\ UNCHANGED << series, writer, readers, clock, qry, log, conv >>

\* AddMetricFamilies has returned: the loop goes to the next component.
CA_Ingested ==
    /\ run.pc = "ingest"
    /\ amf[Main].pc = "idle"
    /\ run' = [run EXCEPT !.pc = "next", !.i = @ + 1]
    /\ UNCHANGED << series, writer, readers, clock, amf, qry, calls, log, conv >>

\* The loop is over: return nil.
CA_Return ==
    /\ run.pc = "next"
    /\ run.i > Len(Components)
    /\ run' = [run EXCEPT !.pc = "done", !.err = "nil"]
    /\ UNCHANGED << series, writer, readers, clock, amf, qry, calls, log, conv >>

\* The families a component returns.
BatchesK ==
    { ("up" :> Family("GAUGE", << GaugeMetric(<< JobA >>, 1) >>)),
      ("up" :> Family("GAUGE", << GaugeMetric(<< >>, 8) >>)
         @@ "www" :> Family("COUNTER", << CounterMetric(<< >>, 4) >>)) }

\* executePromQLQuery: collectAllMetrics on a new store, then, when it has
\* returned nil, ExecutePromQL.
NextK ==
    \/ CA_Call
    \/ \E i \in 1..Len(Components) : CA_Start(Components[i])
    \/ CA_Failed
    \/ CA_Nil
    \/ \E families \in BatchesK : CA_Collected(families)
    \/ AMF_Steps(Main)
    \/ CA_Ingested
    \/ CA_Return
    \/ (run.pc = "done" /\ run.err = "nil" /\ EP_Call("up", "live"))
    \/ EP_Parse
    \/ EP_NewInstantQuery
    \/ EP_Exec
    \/ Convert

SpecRun == Init /\ [][NextK]_vars

\* ------------------------------------------------ queries beside an ingestion

\* The batch of the one call of the specification below: a sample more for a
\* series of IterCalls, and a new series.
BatchesO ==
    { ("up" :> Family("GAUGE", << GaugeMetric(<< JobB >>, 5) >>)
         @@ "www" :> Family("COUNTER", << CounterMetric(<< JobA >>, 6) >>)) }

\* Its Select calls: the whole window, sorted, and the last instant for the
\* series of one job.
QueriesO ==
    { Query(0, MaxClock, TRUE, << >>),
      Query(MaxClock, MaxClock, FALSE, << Matcher("MatchEqual", "job", "a") >>) }

\* On the store of InitI: one more AddMetricFamilies call, a reader that calls
\* the three methods of a querier and iterates over what Select returned, and
\* an ExecutePromQL call with the flattening of its result.
NextO ==
    \/ \E families \in BatchesO : AMF_Call("w1", families, Len(IterCalls) + 1)
    \/ AMF_Steps("w1")
    \/ \E r \in Readers : Qry_Call(r, QueriesO, { "job" }, { << >> })
    \/ \E r \in Readers : Qry_Steps(r)
    \/ \E r \in Readers : SS_Next(r)
    \/ \E r \in Readers : Series_Iterator(r)
    \/ \E r \in Readers : It_Next(r)
    \/ \E r \in Readers : \E t \in { MaxClock } : It_Seek(r, t)
    \/ EP_Call("up", "live")
    \/ EP_Parse
    \/ EP_NewInstantQuery
    \/ EP_Exec
    \/ Convert

SpecReadOnly == InitI /\ [][NextO]_vars

\* ==================================================================== claims

\* The label set an ingested metric stands for: the name label and its pairs.
PairSet(name, pairs) ==
    { Lbl(NameLabel, name) } \cup { Lbl(pairs[i].Name, pairs[i].Value) : i \in 1..Len(pairs) }

\* The names of the set are pairwise distinct (the name label included).
DistinctNames(pairs) ==
    /\ \A i, j \in 1..Len(pairs) : i # j => pairs[i].Name # pairs[j].Name
    /\ \A i \in 1..Len(pairs) : pairs[i].Name # NameLabel

\* The labels of a stored series, as a set.
LabelSetOf(ls) == { ls[i] : i \in 1..Len(ls) }

\* The samples appended under key so far, in the order appended.
SamplesLogged(key) ==
    LET sub == SelectSeq(log, LAMBDA e : e.key = key)
    IN  [i \in 1..Len(sub) |-> sub[i].sample]

\* Two log entries that ingest the same label set (distinct names).
SameLabelSet(i, j) ==
    /\ log[i].name = log[j].name
    /\ PairSet(log[i].name, log[i].Label) = PairSet(log[j].name, log[j].Label)
    /\ DistinctNames(log[i].Label)
    /\ DistinctNames(log[j].Label)

\* C1. Canonical identity: two metrics ingested with the same name and the
\* same set of labels (pairwise distinct names), in whatever order each call
\* lists the labels, are appended to one and the same series; the index holds
\* exactly one series for that label set, and when these two are the only
\* samples ingested for it the series holds exactly the two, in call order.
C1_CanonicalIdentity ==
    \A i, j \in 1..Len(log) :
        (i < j /\ SameLabelSet(i, j)) =>
            LET ks == { k \in DOMAIN series :
                          LabelSetOf(series[k].SeriesLabels)
                              = PairSet(log[i].name, log[i].Label) }
            IN  /\ Cardinality(ks) = 1
                /\ log[i].key \in ks
                /\ log[j].key = log[i].key
                /\ Len(SamplesLogged(log[i].key)) = 2
                     => series[log[i].key].Samples = << log[i].sample, log[j].sample >>

\* C1 witness: two finished calls listed the same two labels in different
\* orders with different values, and one series holds both samples.
C1_Witness ==
    /\ \A w \in Writers : amf[w].pc = "idle"
    /\ \E i, j \in 1..Len(log) :
          /\ i < j
          /\ log[i].call # log[j].call
          /\ SameLabelSet(i, j)
          /\ log[i].Label # log[j].Label
          /\ Len(log[i].Label) = 2
          /\ log[i].sample.Value # log[j].sample.Value
          /\ series[log[i].key].Samples = << log[i].sample, log[j].sample >>

\* The value a series has for a label name: the label's value, "" if absent.
ValueFor(ls, name) ==
    IF \E l \in LabelSetOf(ls) : l.Name = name
    THEN (CHOOSE l \in LabelSetOf(ls) : l.Name = name).Value
    ELSE ""

\* Whether a matcher's condition holds on a value.
Holds(m, v) ==
    \/ m.Type = "MatchEqual" /\ v = m.Value
    \/ m.Type = "MatchNotEqual" /\ v # m.Value
    \/ m.Type = "MatchRegexp" /\ RegexMatches(m.Value, v)
    \/ m.Type = "MatchNotRegexp" /\ ~RegexMatches(m.Value, v)

\* The positions of the samples of ts that lie in [mint, maxt].
InWindow(ts, mint, maxt) ==
    { i \in 1..Len(ts.Samples) :
        mint <= ts.Samples[i].Timestamp /\ ts.Samples[i].Timestamp <= maxt }

\* The keys Select has to return a series for.
Wanted(r) ==
    { k \in DOMAIN series :
        /\ \A i \in 1..Len(qry[r].matchers) :
               Holds(qry[r].matchers[i], ValueFor(series[k].SeriesLabels, qry[r].matchers[i].Name))
        /\ InWindow(series[k], qry[r].mint, qry[r].maxt) # {} }

\* Select has built its result and still holds the read lock.
Selected(r) == qry[r].op = "Select" /\ qry[r].pc = "runlock"

\* C4. Selector correctness: the series Select returns are exactly the series
\* of the index on which every matcher holds (an absent label counting as "")
\* and which have a sample in [mint, maxt], each once; with no matcher, every
\* series with a sample in the window.
C4_SelectorCorrectness ==
    \A r \in Readers :
        Selected(r) =>
            /\ { qry[r].result[i].SeriesLabels : i \in 1..Len(qry[r].result) }
                 = { series[k].SeriesLabels : k \in Wanted(r) }
            /\ Len(qry[r].result) = Cardinality(Wanted(r))

\* C4 witness: a Select with two matchers returned a series and left out a
\* series that has samples in the window but fails a matcher.
C4_Witness ==
    \E r \in Readers :
        /\ Selected(r)
        /\ Len(qry[r].matchers) = 2
        /\ Len(qry[r].result) > 0
        /\ \E k \in DOMAIN series :
              /\ InWindow(series[k], qry[r].mint, qry[r].maxt) # {}
              /\ k \notin Wanted(r)
              /\ \A i \in 1..Len(qry[r].result) :
                     qry[r].result[i].SeriesLabels # series[k].SeriesLabels

\* The key of the index series a returned series is the copy of.
KeyOf(fs) == CHOOSE k \in DOMAIN series : series[k].SeriesLabels = fs.SeriesLabels

\* The n-th smallest element of a set of positions.
Nth(P, n) == CHOOSE i \in P : Cardinality({ x \in P : x < i }) = n - 1

\* C5. Time filtering: each returned series carries exactly the stored samples
\* of its series with mint <= timestamp <= maxt, in their stored order.
C5_TimeFiltering ==
    \A r \in Readers :
        Selected(r) =>
            \A i \in 1..Len(qry[r].result) :
                LET src == series[KeyOf(qry[r].result[i])]
                    P == InWindow(src, qry[r].mint, qry[r].maxt)
                    got == qry[r].result[i].Samples
                IN  /\ Len(got) = Cardinality(P)
                    /\ \A n \in 1..Len(got) : got[n] = src.Samples[Nth(P, n)]

\* C5 witness: a returned series holds a sample whose timestamp is both mint
\* and maxt, and lacks a stored sample outside the window.
C5_Witness ==
    \E r \in Readers :
        /\ Selected(r)
        /\ \E i \in 1..Len(qry[r].result) :
              /\ qry[r].mint = qry[r].maxt
              /\ Len(qry[r].result[i].Samples) = 1
              /\ qry[r].result[i].Samples[1].Timestamp = qry[r].mint
              /\ Len(series[KeyOf(qry[r].result[i])].Samples) = 2

\* C6. Select never returns a series with no sample: every returned series has
\* at least one, and a series with no sample in [mint, maxt] is not returned.
C6_NoEmptySeries ==
    \A r \in Readers :
        /\ \A i \in 1..Len(qry[r].result) : Len(qry[r].result[i].Samples) > 0
        /\ Selected(r) =>
              \A k \in DOMAIN series :
                  InWindow(series[k], qry[r].mint, qry[r].maxt) = {} =>
                      \A i \in 1..Len(qry[r].result) :
                          qry[r].result[i].SeriesLabels # series[k].SeriesLabels

\* C6 witness: a series on which every matcher holds has samples, none in the
\* window, and Select returned without it.
C6_Witness ==
    \E r \in Readers :
        /\ Selected(r)
        /\ \E k \in DOMAIN series :
              /\ matchesLabels(series[k].SeriesLabels, qry[r].matchers)
              /\ Len(series[k].Samples) > 0
              /\ InWindow(series[k], qry[r].mint, qry[r].maxt) = {}
              /\ \A i \in 1..Len(qry[r].result) :
                     qry[r].result[i].SeriesLabels # series[k].SeriesLabels

\* C2. Retention bound: once more than RetentionCap samples have been appended
\* to a series and the call's retention check has run, the series holds
\* exactly the RetentionCap most recently appended samples, in the order in
\* which they were appended; the oldest are the ones dropped.
C2_RetentionBound ==
    (\A w \in Writers : amf[w].pc # "trim") =>
        \A k \in DOMAIN series :
            LET all == SamplesLogged(k)
            IN  Len(all) > RetentionCap =>
                    series[k].Samples = SubSeq(all, Len(all) - RetentionCap + 1, Len(all))

\* C2 witness: no call is running, a series has had at least two samples more
\* than the cap appended, and its oldest retained sample is not the first one
\* appended.
C2_Witness ==
    /\ \A w \in Writers : amf[w].pc = "idle"
    /\ \E k \in DOMAIN series :
          LET all == SamplesLogged(k)
          IN  /\ Len(all) >= RetentionCap + 2
              /\ Len(series[k].Samples) = RetentionCap
              /\ series[k].Samples[1] # all[1]
              /\ series[k].Samples[RetentionCap] = all[Len(all)]

\* C3. A goroutine that holds the read lock (in Select, LabelValues or
\* LabelNames) finds at most RetentionCap samples in every series of the
\* index, and so does every series set Select has returned: no reader sees a
\* series between the append and the retention check.
C3_ReadersSeeTrimmed ==
    /\ readers # {} => \A k \in DOMAIN series : Len(series[k].Samples) <= RetentionCap
    /\ \A r \in Readers : \A i \in 1..Len(qry[r].result) :
           Len(qry[r].result[i].Samples) <= RetentionCap

\* C3 witness: a Select holds the read lock on an index in which a series was
\* trimmed to the cap, while an AddMetricFamilies call waits for the lock.
C3_Witness ==
    \E r \in readers :
        /\ Selected(r)
        /\ \E w \in Writers : amf[w].pc = "lock"
        /\ \E k \in DOMAIN series :
              /\ Len(SamplesLogged(k)) > RetentionCap
              /\ Len(series[k].Samples) = RetentionCap
              /\ \E i \in 1..Len(qry[r].result) :
                     Len(qry[r].result[i].Samples) = RetentionCap

\* convertPromQLResult has returned from a call on a result of this type.
Converted(type) == conv.pc = "done" /\ conv.result.type = type

WithFloats == { i \in 1..Len(conv.result.Matrix) : Len(conv.result.Matrix[i].Floats) > 0 }

\* C8, as claimed. Range-matrix flattening: one row for every series of the
\* matrix, carrying the last sample of that series.
C8_AsClaimed ==
    Converted("Matrix") =>
        /\ Len(conv.rows) = Len(conv.result.Matrix)
        /\ \A i \in 1..Len(conv.rows) :
              LET fs == conv.result.Matrix[i].Floats
              IN  /\ conv.rows[i].Value = fs[Len(fs)].F
                  /\ conv.rows[i].Timestamp = fs[Len(fs)].T

\* C8, amended. Range-matrix flattening: one row, in order, for every series
\* of the matrix that has at least one float sample, carrying the value and
\* the timestamp of the last sample of that series; a series with no float
\* sample gets no row, so there are as many rows as series with a float.
C8_MatrixRows ==
    Converted("Matrix") =>
        /\ conv.err = ""
        /\ Len(conv.rows) = Cardinality(WithFloats)
        /\ \A n \in 1..Len(conv.rows) :
              LET ss == conv.result.Matrix[Nth(WithFloats, n)]
              IN  /\ conv.rows[n].MetricName = ValueFor(ss.Metric, NameLabel)
                  /\ conv.rows[n].Value = ss.Floats[Len(ss.Floats)].F
                  /\ conv.rows[n].Timestamp = ss.Floats[Len(ss.Floats)].T

\* C8 witness: a matrix of a series with two samples and a series with none
\* was flattened into the one row of the first, with its later sample.
C8_Witness ==
    /\ Converted("Matrix")
    /\ Len(conv.result.Matrix) = 2
    /\ Len(conv.result.Matrix[1].Floats) = 2
    /\ Len(conv.result.Matrix[2].Floats) = 0
    /\ Len(conv.rows) = 1
    /\ conv.rows[1].Timestamp = 1

\* C9. Scalar flattening: exactly one row, named "scalar", with an empty
\* label map and the scalar's value and timestamp.
C9_ScalarRow ==
    Converted("Scalar") =>
        /\ conv.err = ""
        /\ Len(conv.rows) = 1
        /\ conv.rows[1].MetricName = "scalar"
        /\ DOMAIN conv.rows[1].Labels = {}
        /\ conv.rows[1].Value = conv.result.Scalar.V
        /\ conv.rows[1].Timestamp = conv.result.Scalar.T

\* C9 witness: the scalar 5 at time 1 was flattened.
C9_Witness ==
    /\ Converted("Scalar")
    /\ conv.result.Scalar = [T |-> 1, V |-> 5]
    /\ Len(conv.rows) = 1
    /\ conv.rows[1].Value = 5

\* C10. Unsupported result shape: a value that is no vector, scalar or matrix
\* makes convertPromQLResult return an error and no rows.
C10_UnsupportedIsError ==
    (conv.pc = "done" /\ conv.result.type \notin { "Vector", "Scalar", "Matrix" }) =>
        /\ conv.err # ""
        /\ conv.rows = << >>

\* C10 witness: a string result was answered with the error.
C10_Witness ==
    /\ Converted("String")
    /\ conv.err = "unsupported result type"
    /\ Len(conv.rows) = 0

\* A metric one of whose label pairs has no name: a malformed instance.
Malformed(pairs) == \E i \in 1..Len(pairs) : pairs[i].Name = ""

\* A label list that holds a label without a name.
HasNoNameLabel(ls) == \E i \in 1..Len(ls) : ls[i].Name = ""

\* C11. Malformed observations are dropped: an instance with a malformed label
\* appends no sample, creates no series, and no series of it is in what a
\* later Select returns. AddMetricFamilies validates nothing, so the formula
\* is violated.
C11_MalformedDropped ==
    /\ \A i \in 1..Len(log) : ~Malformed(log[i].Label)
    /\ \A k \in DOMAIN series : ~HasNoNameLabel(series[k].SeriesLabels)
    /\ \A r \in Readers : \A i \in 1..Len(qry[r].result) :
           ~HasNoNameLabel(qry[r].result[i].SeriesLabels)

\* The calls that have appended a sample.
CallsLogged == { log[i].call : i \in 1..Len(log) }

\* The instances call c has ingested so far, as (family name, label pairs).
IngestedBy(c) == { << log[i].name, log[i].Label >> : i \in { j \in 1..Len(log) : log[j].call = c } }

\* The instances of a batch.
InstancesOf(families) ==
    UNION { { << name, families[name].Metric[i].Label >> :
                i \in 1..Len(families[name].Metric) } : name \in DOMAIN families }

\* The number of instances of a batch.
RECURSIVE CountInstances(_, _)
CountInstances(families, names) ==
    IF names = {} THEN 0
    ELSE LET name == CHOOSE n \in names : TRUE
         IN  Len(families[name].Metric) + CountInstances(families, names \ {name})

\* Call c has ingested the whole of a batch: every instance of it, once.
WholeCall(c) ==
    \E families \in Batches :
        /\ IngestedBy(c) = InstancesOf(families)
        /\ Cardinality({ j \in 1..Len(log) : log[j].call = c })
             = CountInstances(families, DOMAIN families)

\* The last RetentionCap of the samples appended under key.
RetainedOf(key) ==
    LET all == SamplesLogged(key)
    IN  IF Len(all) > RetentionCap
        THEN SubSeq(all, Len(all) - RetentionCap + 1, Len(all))
        ELSE all

\* C12. A query never observes a partially applied ingestion: while a Select,
\* LabelValues or LabelNames call holds the read lock, every call that has
\* appended anything has appended its whole batch, no series is left created
\* without its sample, and every series holds what the retention check leaves
\* of the samples appended to it.
C12_NoPartialIngestion ==
    \A r \in readers :
        /\ \A c \in CallsLogged : WholeCall(c)
        /\ \A w \in Writers : amf[w].pc \in { "idle", "lock" }
        /\ \A k \in DOMAIN series :
              /\ Len(series[k].Samples) > 0
              /\ series[k].Samples = RetainedOf(k)

\* C12 witness: a reader holds the read lock on an index that a call with two
\* families has been applied to in whole, while another AddMetricFamilies call
\* waits for the lock.
C12_Witness ==
    \E r \in readers :
        /\ qry[r].pc = "scan"
        /\ \E w \in Writers : amf[w].pc = "lock"
        /\ \E c \in CallsLogged :
              /\ WholeCall(c)
              /\ Cardinality({ e[1] : e \in IngestedBy(c) }) = 2

\* C13. No duplicate-series race: whatever the interleaving of the calls, no
\* two series of the index stand for the same label set, and every sample a
\* call appended under a key is in the series of that key (none is lost to a
\* series record created anew).
C13_NoDuplicateSeries ==
    /\ \A k1, k2 \in DOMAIN series :
           LabelSetOf(series[k1].SeriesLabels) = LabelSetOf(series[k2].SeriesLabels)
               => k1 = k2
    /\ \A i \in 1..Len(log) : log[i].key \in DOMAIN series
    /\ \A k \in DOMAIN series :
           Len(SamplesLogged(k)) <= RetentionCap => series[k].Samples = SamplesLogged(k)

\* C13 witness: two calls that ran side by side ingested the same label set,
\* unseen before them: the one that was called first got the lock second (the
\* first sample of the series is of the call with the larger number), found
\* the series the other had created, and the series holds both samples.
C13_Witness ==
    \E w \in Writers :
        /\ amf[w].pc = "trim"
        /\ Len(series[amf[w].key].Samples) = 2
        /\ \E i, j \in 1..Len(log) :
              /\ i < j
              /\ log[i].key = amf[w].key
              /\ log[j].key = amf[w].key
              /\ log[j].call = amf[w].call
              /\ log[i].call > log[j].call
              /\ series[amf[w].key].Samples = << log[i].sample, log[j].sample >>

\* C16. In every state the samples of each series are non-decreasing in
\* timestamp in storage order.
C16_TimestampsNonDecreasing ==
    \A k \in DOMAIN series :
        \A i, j \in 1..Len(series[k].Samples) :
            i < j => series[k].Samples[i].Timestamp <= series[k].Samples[j].Timestamp

\* C16 witness: a series holds two samples of two calls with increasing
\* timestamps, the later one appended by the call that was made first and got
\* the lock second.
C16_Witness ==
    \E i, j \in 1..Len(log) :
        /\ i < j
        /\ log[i].key = log[j].key
        /\ log[i].call > log[j].call
        /\ log[i].sample.Timestamp < log[j].sample.Timestamp
        /\ series[log[i].key].Samples = << log[i].sample, log[j].sample >>

\* C17. One timestamp per batch: all samples one AddMetricFamilies call
\* appends, across its families and instances, carry one timestamp, the one
\* the call read after it got the lock.
C17_OneTimestampPerBatch ==
    /\ \A i, j \in 1..Len(log) :
           log[i].call = log[j].call => log[i].sample.Timestamp = log[j].sample.Timestamp
    /\ \A w \in Writers : \A i \in 1..Len(log) :
           (log[i].call = amf[w].call /\ amf[w].pc # "idle")
               => log[i].sample.Timestamp = amf[w].timestamp

\* C17 witness: a call has appended samples of two families with one
\* timestamp, and the clock has moved on since the call read it.
C17_Witness ==
    \E w \in Writers :
        /\ amf[w].pc = "trim"
        /\ clock > amf[w].timestamp
        /\ \E i, j \in 1..Len(log) :
              /\ log[i].call = amf[w].call
              /\ log[j].call = amf[w].call
              /\ log[i].name # log[j].name
              /\ log[i].sample.Timestamp = log[j].sample.Timestamp

\* C14. The read lock is held for the duration of one querier call only, and
\* the set Select returned is a copy: no step taken after the call returned,
\* an append or a retention trim of AddMetricFamilies included, changes the
\* series of the returned set, their labels or the samples their iterators
\* are made on.
C14_ReturnedSetIsCopy ==
    [][\A r \in Readers :
          /\ r \in readers => qry[r].pc \in { "scan", "runlock" }
          /\ qry[r].pc = "done" =>
                /\ r \notin readers
                /\ Len(qry'[r].result) = Len(qry[r].result)
                /\ \A i \in 1..Len(qry[r].result) :
                      /\ qry'[r].result[i].SeriesLabels = qry[r].result[i].SeriesLabels
                      /\ Iterator(qry'[r].result[i]).samples
                           = Iterator(qry[r].result[i]).samples]_vars

\* C14 witness: Select has returned a series with RetentionCap samples and
\* released the lock; since then a call appended to that series of the index
\* and trimmed it, and the returned series still starts with the sample the
\* index has dropped.
C14_Witness ==
    \E r \in Readers :
        /\ qry[r].pc = "done"
        /\ r \notin readers
        /\ \A w \in Writers : amf[w].pc = "idle"
        /\ \E i \in 1..Len(qry[r].result) :
              LET got == qry[r].result[i]
                  now == series[KeyOf(got)].Samples
              IN  /\ Len(got.Samples) = RetentionCap
                  /\ Len(now) = RetentionCap
                  /\ Len(SamplesLogged(KeyOf(got))) > RetentionCap
                  /\ got.Samples[2] = now[1]
                  /\ now[RetentionCap] # got.Samples[RetentionCap]

\* C15. Cancellation: a Select called with a context that is cancelled or past
\* its deadline returns a set whose Err is not nil and that holds no series.
\* Select never reads its context and Err is nil for every set, so the formula
\* is violated.
C15_CancellationSurfaced ==
    \A r \in Readers :
        (qry[r].op = "Select" /\ qry[r].ctx # "live" /\ qry[r].pc \in { "runlock", "done" })
            => /\ SeriesSetErr(qry[r].result) # "nil"
               /\ Len(qry[r].result) = 0

C19_NoBackwardIteration ==
    \A r \in Readers :
        qry[r].it.op \in { "Next", "Seek" } => qry[r].it.current >= qry[r].it.prev

\* (name, value) pairs in ascending order: by name, then by value.
PairLess(p, q) ==
    \/ StrLess(p.Name, q.Name)
    \/ p.Name = q.Name /\ StrLess(p.Value, q.Value)

\* The pairs of a label list, sorted.
SortedPairs(ls) ==
    CHOOSE p \in Perms(ls) : \A i, j \in 1..Len(p) : i < j => ~PairLess(p[j], p[i])

\* The lexicographic order over sequences of pairs.
LexLess(a, b) ==
    \E n \in 0..Len(a) :
        /\ n <= Len(b)
        /\ \A i \in 1..n : a[i] = b[i]
        /\ \/ n = Len(a) /\ n < Len(b)
           \/ n < Len(a) /\ n < Len(b) /\ PairLess(a[n + 1], b[n + 1])

\* C20. Sorted selection: the series Next and At enumerate from the set of a
\* Select with sortSeries = true come in strictly ascending order of their
\* label sets, lexicographic over the sorted (name, value) pairs, and an
\* enumeration that has reached the end has gone through every returned series.
C20_SortedSelection ==
    \A r \in Readers :
        (qry[r].op = "Select" /\ qry[r].sortSeries) =>
            /\ \A i, j \in 1..Len(qry[r].seen) :
                   i < j => LexLess(SortedPairs(qry[r].seen[i]), SortedPairs(qry[r].seen[j]))
            /\ qry[r].current >= Len(qry[r].result) =>
                   qry[r].seen = [i \in 1..Len(qry[r].result) |-> qry[r].result[i].SeriesLabels]

\* C20 witness: the enumeration of a sorted Select went through three series
\* and reached the end.
C20_Witness ==
    \E r \in Readers :
        /\ qry[r].op = "Select"
        /\ qry[r].sortSeries
        /\ qry[r].pc = "done"
        /\ Len(qry[r].seen) = 3
        /\ qry[r].current = Len(qry[r].result)

\* The value a label list gives for a name: that of its first entry of that
\* name, the empty string when it has none.
RECURSIVE FirstValueOf(_, _)
FirstValueOf(ls, name) ==
    IF ls = << >> THEN ""
    ELSE IF Head(ls).Name = name THEN Head(ls).Value
    ELSE FirstValueOf(Tail(ls), name)

\* The series of the index on which every matcher of the call holds.
Matching(r) ==
    { k \in DOMAIN series :
        \A i \in 1..Len(qry[r].matchers) :
            Holds(qry[r].matchers[i],
                  FirstValueOf(series[k].SeriesLabels, qry[r].matchers[i].Name)) }

\* The values the label called name has on a series: those of its entries of
\* that name.
ValuesOn(k, name) ==
    { series[k].SeriesLabels[i].Value :
        i \in { j \in 1..Len(series[k].SeriesLabels) : series[k].SeriesLabels[j].Name = name } }

\* A sequence of strings lists the set S, each once, in ascending order.
ListsAscending(q, S) ==
    /\ { q[i] : i \in 1..Len(q) } = S
    /\ \A i, j \in 1..Len(q) : i < j => StrLess(q[i], q[j])

\* LabelValues has built its result and still holds the read lock.
ValuesListed(r) == qry[r].op = "LabelValues" /\ qry[r].pc = "runlock"

\* C21 as claimed: LabelValues returns every value the label takes on a
\* matching series, the empty string included when a series has the label
\* with an empty value.
C21_AsClaimed ==
    \A r \in Readers :
        ValuesListed(r) =>
            ListsAscending(qry[r].values, UNION { ValuesOn(k, qry[r].name) : k \in Matching(r) })

\* C21. LabelValues returns exactly the non-empty values that the series on
\* which every matcher holds give for the name (the value of the first entry
\* of that name in the label list of the series), each once, in ascending
\* order, and nil for the error; whether a series has a sample in the window
\* of the querier plays no part.
C21_LabelValues ==
    \A r \in Readers :
        ValuesListed(r) =>
            /\ ListsAscending(qry[r].values,
                              { FirstValueOf(series[k].SeriesLabels, qry[r].name) :
                                  k \in Matching(r) } \ { "" })
            /\ QuerierErr(qry[r].values) = "nil"

\* C21 witness: LabelValues left out the empty value of a matching series
\* that has the label, and listed two values, one of them of a series that
\* has no sample in the window of the querier.
C21_Witness ==
    \E r \in Readers :
        /\ ValuesListed(r)
        /\ Len(qry[r].values) = 2
        /\ \E k \in Matching(r) : "" \in ValuesOn(k, qry[r].name)
        /\ \E k \in Matching(r) :
              /\ ValuesOn(k, qry[r].name) \cap { qry[r].values[i] : i \in 1..2 } # {}
              /\ InWindow(series[k], qry[r].mint, qry[r].maxt) = {}

\* LabelNames has built its result and still holds the read lock.
NamesListed(r) == qry[r].op = "LabelNames" /\ qry[r].pc = "runlock"

\* C22. LabelNames returns exactly the label names, __name__ included, that
\* are on at least one series on which every matcher holds, each once, in
\* ascending order, and nil for the error; with no such series the list is
\* empty.
C22_LabelNames ==
    \A r \in Readers :
        NamesListed(r) =>
            /\ ListsAscending(qry[r].values,
                              UNION { { series[k].SeriesLabels[i].Name :
                                          i \in 1..Len(series[k].SeriesLabels) } :
                                      k \in Matching(r) })
            /\ Matching(r) = {} => qry[r].values = << >>
            /\ QuerierErr(qry[r].values) = "nil"

\* C22 witness: with a matcher that holds on some series and not on others,
\* LabelNames listed __name__ and another name and left out a name that only
\* the other series have.
C22_Witness ==
    \E r \in Readers :
        /\ NamesListed(r)
        /\ Len(qry[r].matchers) = 1
        /\ Len(qry[r].values) = 2
        /\ qry[r].values[1] = NameLabel
        /\ \E k \in DOMAIN series \ Matching(r) :
              \E i \in 1..Len(series[k].SeriesLabels) :
                  \A j \in 1..2 : series[k].SeriesLabels[i].Name # qry[r].values[j]

\* AddMetricFamilies has just appended the sample of an instance.
Appended(w) == amf[w].pc = "trim"

\* The family that instance is of, and the instance.
TheFamily(w) == amf[w].families[amf[w].name]

TheMetric(w) == TheFamily(w).Metric[amf[w].i]

\* Whether an instance has the payload of a type; no payload is of a type
\* that is none of the five.
HasPayload(type, m) ==
    \/ type = "COUNTER" /\ m.Counter # <<>>
    \/ type = "GAUGE" /\ m.Gauge # <<>>
    \/ type = "UNTYPED" /\ m.Untyped # <<>>
    \/ type = "HISTOGRAM" /\ m.Histogram # <<>>
    \/ type = "SUMMARY" /\ m.Summary # <<>>

\* The direct value of a counter, gauge or untyped payload, the observation
\* count of a histogram or summary payload.
DirectOrCount(type, m) ==
    IF type = "COUNTER" THEN m.Counter[1]
    ELSE IF type = "GAUGE" THEN m.Gauge[1]
    ELSE IF type = "UNTYPED" THEN m.Untyped[1]
    ELSE IF type = "HISTOGRAM" THEN m.Histogram[1].SampleCount
    ELSE m.Summary[1].SampleCount

\* The sample appended last is the newest of the series of the instance, and
\* has the value v.
LastAppended(w, v) ==
    /\ amf[w].key \in DOMAIN series
    /\ Len(series[amf[w].key].Samples) > 0
    /\ series[amf[w].key].Samples[Len(series[amf[w].key].Samples)].Value = v
    /\ log[Len(log)].key = amf[w].key
    /\ log[Len(log)].Label = TheMetric(w).Label
    /\ log[Len(log)].sample.Value = v

\* C23. The value appended for an instance that has the payload of the
\* declared type of its family is the direct value of that payload for
\* counter, gauge and untyped, and its observation count for histogram and
\* summary, whatever other payloads the instance has.
C23_ValueByDeclaredType ==
    \A w \in Writers :
        (Appended(w) /\ HasPayload(TheFamily(w).Type, TheMetric(w))) =>
            LastAppended(w, DirectOrCount(TheFamily(w).Type, TheMetric(w)))

\* C23 witness: after a call that appended the observation counts of a
\* histogram and of a summary whose sums differ from them, the counter value
\* of an instance that also has a gauge payload has been appended.
C23_Witness ==
    \E w \in Writers :
        /\ Appended(w)
        /\ TheFamily(w).Type = "COUNTER"
        /\ TheMetric(w).Counter # <<>> /\ TheMetric(w).Gauge # <<>>
        /\ TheMetric(w).Counter # TheMetric(w).Gauge
        /\ log[Len(log)].sample.Value = TheMetric(w).Counter[1]
        /\ \E i, j \in 1..(Len(log) - 1) :
              /\ log[i].name = "up" /\ log[i].sample.Value = 3
              /\ log[j].name = "www" /\ log[j].sample.Value = 2

\* The batch of a call has no instance.
NoInstances(families) == \A name \in DOMAIN families : Len(families[name].Metric) = 0

\* C24. An instance without the payload of the declared type of its family,
\* or of a family whose type is none of the five, has its series in the index
\* with a sample of value 0 appended, and when the call is about to return
\* every instance of its batch has been ingested, once.
C24_ExtractionDefaultsToZero ==
    \A w \in Writers :
        /\ (Appended(w) /\ ~HasPayload(TheFamily(w).Type, TheMetric(w))) => LastAppended(w, 0)
        /\ amf[w].pc = "unlock" =>
              /\ IngestedBy(amf[w].call) = InstancesOf(amf[w].families)
              /\ Cardinality({ j \in 1..Len(log) : log[j].call = amf[w].call })
                   = CountInstances(amf[w].families, DOMAIN amf[w].families)

\* C24 witness: a call is about to return that appended 0 for a counter
\* instance that has a gauge payload only, then the counter value of the next
\* instance of the family, and 0 for the instance of a family of unknown type.
C24_Witness ==
    \E w \in Writers :
        /\ amf[w].pc = "unlock"
        /\ \E i, j, k \in 1..Len(log) :
              /\ log[i].call = amf[w].call /\ log[j].call = amf[w].call
              /\ log[k].call = amf[w].call
              /\ i < j
              /\ log[i].name = "up" /\ log[i].Label = << JobA >> /\ log[i].sample.Value = 0
              /\ log[j].name = "up" /\ log[j].Label = << JobB >> /\ log[j].sample.Value = 4
              /\ amf[w].families["www"].Type \notin { "COUNTER", "GAUGE", "UNTYPED",
                                                      "HISTOGRAM", "SUMMARY" }
              /\ log[k].name = "www" /\ log[k].sample.Value = 0

\* C26. The label set of every series of the index has the name label exactly
\* once, no two entries of the same name, and is sorted by name.
\* AddMetricFamilies stores the labels of an instance as they come, so an
\* instance with a label called __name__, or with two labels of one name,
\* violates the formula.
C26_LabelSetInvariant ==
    \A k \in DOMAIN series :
        LET ls == series[k].SeriesLabels
        IN  /\ Cardinality({ i \in 1..Len(ls) : ls[i].Name = NameLabel }) = 1
            /\ \A i, j \in 1..Len(ls) : i # j => ls[i].Name # ls[j].Name
            /\ \A i, j \in 1..Len(ls) : i < j => ~StrLess(ls[j].Name, ls[i].Name)

\* C29. A call with the empty mapping, or with families that have no
\* instances, leaves the series of the index and their samples as they are at
\* every step from the lock to the return, and goes through the loops without
\* ever reaching the append.
C29_EmptyBatchesTolerated ==
    [][\A w \in Writers :
          (amf[w].pc \notin { "idle", "lock" } /\ NoInstances(amf[w].families)) =>
              /\ series' = series
              /\ log' = log
              /\ amf'[w].pc \notin { "append", "trim" }]_vars

\* C29 witness: a call with a family that has no instances is about to return
\* on an index that an earlier call has put series in.
C29_Witness ==
    \E w \in Writers :
        /\ amf[w].pc = "unlock"
        /\ DOMAIN amf[w].families # {}
        /\ NoInstances(amf[w].families)
        /\ DOMAIN series # {}
        /\ \E i \in 1..Len(log) : log[i].call < amf[w].call

\* C25. No step of an ingestion or of a querier call removes a series from
\* the index or changes the label set of a series: the set of keys only
\* grows, and a series keeps the labels it was created with.
C25_SeriesNeverRemoved ==
    [][/\ DOMAIN series \subseteq DOMAIN series'
       /\ \A k \in DOMAIN series : series'[k].SeriesLabels = series[k].SeriesLabels]_vars

\* C25 witness: a series that has lost its oldest samples to the retention
\* check is in the index under its key, with the labels of its key, beside a
\* series created after it, and a Select has run on that index.
C25_Witness ==
    \E k \in DOMAIN series :
        /\ Len(SamplesLogged(k)) > RetentionCap
        /\ Len(series[k].Samples) = RetentionCap
        /\ LabelsString(series[k].SeriesLabels) = k
        /\ \E j \in DOMAIN series : j # k /\ Len(SamplesLogged(j)) = 1
        /\ \E r \in Readers : qry[r].pc = "done" /\ qry[r].op = "Select"

\* The query string of the ExecutePromQL call has a syntax error.
InvalidSyntax(query) == query = "" \/ query = "up{"

\* C27. An ExecutePromQL call on a query string with a syntax error never
\* gets to NewInstantQuery, to Exec or to the storage adapter, and returns no
\* rows and the error "invalid PromQL query".
C27_ParseErrorBeforeExecution ==
    (conv.pc # "idle" /\ InvalidSyntax(conv.query)) =>
        /\ conv.pc \in { "parse", "done" }
        /\ conv.created = 0 /\ conv.ran = 0 /\ conv.selects = 0
        /\ conv.pc = "done" => conv.rows = << >> /\ conv.err = "invalid PromQL query"

\* C27 witness: ExecutePromQL has returned from a call on a selector with an
\* unclosed brace, on a store that holds a series.
C27_Witness ==
    /\ conv.pc = "done"
    /\ conv.query = "up{"
    /\ conv.err = "invalid PromQL query"
    /\ DOMAIN series # {}

\* C28. Round trip: when one batch with a single instance of a metric, with no
\* label, is all the store had taken in when ExecutePromQL was called with the
\* selector of that metric, and all it has taken in since, the call returns
\* exactly one row, with the metric name, the value of the instance and the
\* timestamp of the ingestion.  The engine stamps the row with the time of the
\* evaluation, so the formula is violated.
C28_RoundTrip ==
    ( /\ conv.pc = "done" /\ conv.err = ""
      /\ conv.logged = 1 /\ Len(log) = 1
      /\ log[1].Label = << >>
      /\ conv.query = log[1].name ) =>
        /\ Len(conv.rows) = 1
        /\ conv.rows[1].MetricName = log[1].name
        /\ conv.rows[1].Value = log[1].sample.Value
        /\ conv.rows[1].Timestamp = log[1].sample.Timestamp

\* No goroutine that is outside a call holds the mutex.
LocksReleased ==
    /\ \A w \in Writers : amf[w].pc = "idle" => writer # w
    /\ \A r \in Readers : qry[r].pc \in { "idle", "done" } => r \notin readers

\* C30. Under fair scheduling every AddMetricFamilies call that waits for the
\* lock returns, every querier call that waits for the read lock returns, and
\* a goroutine that has returned from its call holds no lock.
C30_NoIndefiniteBlocking ==
    /\ []LocksReleased
    /\ \A w \in Writers : (amf[w].pc = "lock") ~> (amf[w].pc = "idle")
    /\ \A r \in Readers : (qry[r].pc = "rlock") ~> (qry[r].pc = "done")

\* C30 witness: a writer waits for the lock while a reader holds the read
\* lock on an index that an earlier call, which has returned, put a series in.
C30_Witness ==
    /\ \E w \in Writers : amf[w].pc = "lock"
    /\ \E r \in readers : qry[r].pc = "scan"
    /\ writer = "none"
    /\ DOMAIN series # {}

\* ExecutePromQL has returned.
Executed == conv.pc = "done"

\* C31. A failed query is an error and is not retried: NewInstantQuery and
\* Exec are each called at most once by an ExecutePromQL call; a call that
\* returns after NewInstantQuery alone returns "failed to create query", one
\* whose Exec ran with a context that is done returns "query execution
\* failed", and a call that returns an error returns no rows.
C31_FailedQueryNotRetried ==
    /\ conv.created <= 1 /\ conv.ran <= 1
    /\ Executed =>
          /\ conv.err # "" => conv.rows = << >>
          /\ (~InvalidSyntax(conv.query) /\ conv.ran = 0) =>
                 conv.created = 1 /\ conv.err = "failed to create query"
          /\ (conv.ran = 1 /\ conv.ctx # "live") => conv.err = "query execution failed"
          /\ (conv.ran = 1 /\ conv.ctx = "live") => conv.err = ""

\* C31 witness: on a store that holds the series of the selector, Exec ran
\* once with a context past its deadline and ExecutePromQL returned "query
\* execution failed" with no rows.
C31_Witness ==
    /\ Executed
    /\ conv.ctx = "deadline"
    /\ conv.created = 1 /\ conv.ran = 1
    /\ conv.err = "query execution failed"
    /\ conv.rows = << >>
    /\ \E k \in DOMAIN series : FirstValueOf(series[k].SeriesLabels, NameLabel) = conv.query

\* The components whose collection has not been started.
NotStarted ==
    { Components[i] : i \in 1..Len(Components) }
        \ { run.attempted[i] : i \in 1..Len(run.attempted) }

\* C32. Collection runs in parallel: while the collection of a component is
\* under way, the collection of a component that has not been started can
\* start.  collectAllMetrics calls collectComponentMetrics in a plain loop, one
\* component after the other, so the formula is violated.
C32_ParallelCollection ==
    run.pc = "collecting" => \A c \in NotStarted : ENABLED CA_Start(c)

\* The positions of the loop that ended the given way.
EndedAs(outcome) == { i \in 1..Len(run.outcomes) : run.outcomes[i] = outcome }

\* C33. collectAllMetrics attempts the components in the order of its list
\* whatever the earlier ones did; when it returns it has attempted every one
\* and returns nil; it has called AddMetricFamilies once for each component
\* that returned families, with those families, all of which are ingested, and
\* never for a component that failed; the query starts only after that, on an
\* empty store when every component failed.
C33_FailuresDoNotStopCollection ==
    /\ \A i \in 1..Len(run.attempted) : run.attempted[i] = Components[i]
    /\ \A i \in 1..Len(run.outcomes) : run.outcomes[i] = "ok" <=> run.callOf[i] # 0
    /\ CallsLogged \subseteq { run.callOf[i] : i \in EndedAs("ok") }
    /\ conv.pc # "idle" => run.pc = "done"
    /\ run.pc = "done" =>
          /\ run.err = "nil"
          /\ run.attempted = Components
          /\ Len(run.outcomes) = Len(Components)
          /\ calls = Cardinality(EndedAs("ok"))
          /\ \A i \in EndedAs("ok") :
                /\ IngestedBy(run.callOf[i]) = InstancesOf(run.batches[i])
                /\ Cardinality({ j \in 1..Len(log) : log[j].call = run.callOf[i] })
                     = CountInstances(run.batches[i], DOMAIN run.batches[i])
          /\ EndedAs("ok") = {} => series = << >>

\* C33 witness: the first component failed, a later one returned families
\* that were ingested, the one after it failed again, and the query that ran
\* after collectAllMetrics returned has a row.
C33_Witness ==
    /\ run.pc = "done"
    /\ run.outcomes[1] = "failed"
    /\ \E i \in EndedAs("ok") : i + 1 \in EndedAs("failed")
    /\ conv.pc = "done"
    /\ Len(conv.rows) > 0

\* The label sets of the instances of a batch.
BatchLabelSets(families) ==
    UNION { { PairSet(name, families[name].Metric[i].Label) :
                i \in 1..Len(families[name].Metric) } : name \in DOMAIN families }

\* The step is the append of a call of w.
AppendStep(w) == amf[w].pc = "append" /\ amf'[w].pc = "trim"

\* C34. Frame of ingestion.  A step changes the samples of a series only
\* inside a call whose batch has an instance of the label set of that series;
\* the append for an instance adds one sample, with the timestamp of the call,
\* at the end of the series of the label set of the instance and changes no
\* other series; and a call that returns has appended as many samples as its
\* batch has instances.
C34_IngestionFrame ==
    [][/\ \A k \in DOMAIN series :
             series'[k].Samples # series[k].Samples =>
                 \E w \in Writers :
                     /\ amf[w].pc \in { "append", "trim" }
                     /\ LabelSetOf(series[k].SeriesLabels) \in BatchLabelSets(amf[w].families)
       /\ \A w \in Writers :
             AppendStep(w) =>
                 /\ LabelSetOf(series[amf[w].key].SeriesLabels)
                      = PairSet(amf[w].name, TheMetric(w).Label)
                 /\ Len(series'[amf[w].key].Samples)
                      = Len(series[amf[w].key].Samples) + 1
                 /\ SubSeq(series'[amf[w].key].Samples, 1,
                           Len(series[amf[w].key].Samples))
                      = series[amf[w].key].Samples
                 /\ series'[amf[w].key].Samples[Len(series'[amf[w].key].Samples)].Timestamp
                      = amf[w].timestamp
                 /\ \A k \in DOMAIN series \ { amf[w].key } : series'[k] = series[k]
                 /\ Len(log') = Len(log) + 1
       /\ \A w \in Writers :
             (amf[w].pc = "unlock" /\ amf'[w].pc = "idle") =>
                 Cardinality({ j \in 1..Len(log) : log[j].call = amf[w].call })
                     = CountInstances(amf[w].families, DOMAIN amf[w].families)]_vars

\* C34 witness: a call whose batch has no instance of www has appended to the
\* series up, which the retention check has trimmed, while the series www
\* holds the one sample an earlier call appended, the same call that appended
\* two samples with one timestamp to up for its two instances of that label
\* set.
C34_Witness ==
    \E w \in Writers :
        /\ amf[w].pc = "unlock"
        /\ "www" \notin DOMAIN amf[w].families
        /\ \E k \in DOMAIN series :
              /\ Len(SamplesLogged(k)) > RetentionCap
              /\ Len(series[k].Samples) = RetentionCap
              /\ series[k].Samples[RetentionCap] = log[Len(log)].sample
        /\ \E k \in DOMAIN series :
              /\ FirstValueOf(series[k].SeriesLabels, NameLabel) = "www"
              /\ series[k].Samples = SamplesLogged(k)
              /\ Len(series[k].Samples) = 1
        /\ \E i, j \in 1..Len(log) :
              /\ i < j
              /\ log[i].call = log[j].call /\ log[i].call < amf[w].call
              /\ log[i].key = log[j].key
              /\ log[i].sample.Timestamp = log[j].sample.Timestamp

\* The step is a step of a querier call, of an iteration over what it
\* returned, or of ExecutePromQL and the flattening of its result.
QueryStep == qry' # qry \/ conv' # conv

\* C35. Queries are read-only: a step of Select, LabelValues or LabelNames, of
\* the iteration over a returned series set (Next, Seek) or of the execution
\* and flattening of a query leaves the index as it was, series and samples;
\* the index changes in steps of AddMetricFamilies only.
C35_QueriesReadOnly ==
    [][/\ QueryStep => series' = series
       /\ series' # series => \E w \in Writers : amf'[w] # amf[w]]_vars

\* C35 witness: the reader iterates over a series Select returned, after a
\* Next and with the sample At gives, the flattening has returned rows, and
\* the index holds what the ingestion calls appended, the call made beside
\* the queries included.
C35_Witness ==
    /\ \E r \in Readers :
          /\ qry[r].op = "Select"
          /\ qry[r].it.open
          /\ qry[r].it.op = "Next"
          /\ IteratorAt(qry[r].it) # << 0, 0 >>
    /\ conv.pc = "done"
    /\ conv.rows # << >>
    /\ calls = Len(IterCalls) + 1
    /\ \A w \in Writers : amf[w].pc = "idle"
    /\ \A k \in DOMAIN series : series[k].Samples = SamplesLogged(k)

\* A sample as At returns it.
AtOf(sample) == << sample.Timestamp, sample.Value >>

\* C36. Forward iteration with Next alone.  On an iterator over n samples that
\* only Next was called on: before the first call At gives (0, 0); each of
\* the first n calls reported a float and At gave, after the i-th of them, the
\* i-th sample, so the samples come in stored order, which ascends in
\* timestamp, each once; after the (n+1)-th call and every later one Next has
\* reported exhaustion and At gives (0, 0).
C36_ForwardIteration ==
    \A r \in Readers :
        LET it == qry[r].it
            n == Len(it.samples)
            done == IF it.nexts < n THEN it.nexts ELSE n
        IN  (it.open /\ it.nexts >= 0) =>
                /\ it.samples = qry[r].result[it.of + 1].Samples
                /\ \A i, j \in 1..n : i < j => it.samples[i].Timestamp <= it.samples[j].Timestamp
                /\ it.got = [i \in 1..done |-> AtOf(it.samples[i])]
                /\ it.nexts = 0 => IteratorAt(it) = << 0, 0 >>
                /\ it.nexts \in 1..n =>
                      /\ it.ret = ValFloat
                      /\ IteratorAt(it) = AtOf(it.samples[it.nexts])
                /\ it.nexts > n =>
                      /\ it.ret = ValNone
                      /\ IteratorAt(it) = << 0, 0 >>

\* C36 witness: Next was called n + 1 times, and nothing else, on an iterator
\* over n >= 2 samples of more than one timestamp: the last call reported
\* exhaustion after the n before it gave every sample.
C36_Witness ==
    \E r \in Readers :
        LET it == qry[r].it
        IN  /\ it.open
            /\ Len(it.samples) >= 2
            /\ it.samples[1].Timestamp < it.samples[Len(it.samples)].Timestamp
            /\ it.nexts = Len(it.samples) + 1
            /\ it.ret = ValNone
            /\ Len(it.got) = Len(it.samples)

\* C37. Whenever no writer holds the lock, and so in every state a reader
\* can observe, every series of the index holds at least one sample; in every
\* state every series is stored under the encoding of its own label list; a
\* series with no sample is the one its creator, which holds the write lock,
\* is about to append to; and every sample was appended under the key of a
\* series whose label set is that of its instance, so instances of different
\* label sets never share a key.
C37_SeriesObservable ==
    /\ writer = "none" => \A k \in DOMAIN series : Len(series[k].Samples) > 0
    /\ \A r \in readers : \A k \in DOMAIN series : Len(series[k].Samples) > 0
    /\ \A k \in DOMAIN series : k = LabelsString(series[k].SeriesLabels)
    /\ \A k \in DOMAIN series :
          Len(series[k].Samples) = 0 =>
              \E w \in Writers : writer = w /\ amf[w].pc = "append" /\ amf[w].key = k
    /\ \A i \in 1..Len(log) :
          /\ log[i].key \in DOMAIN series
          /\ LabelSetOf(series[log[i].key].SeriesLabels) = PairSet(log[i].name, log[i].Label)

\* C37 witness: a reader scans, under the read lock, an index of three series
\* of three label sets, two of them of one metric, that two calls created; each
\* holds a sample.
C37_Witness ==
    \E r \in readers :
        /\ qry[r].pc = "scan"
        /\ Cardinality(DOMAIN series) = 3
        /\ Cardinality({ LabelSetOf(series[k].SeriesLabels) : k \in DOMAIN series }) = 3
        /\ Cardinality({ FirstValueOf(series[k].SeriesLabels, NameLabel) :
                           k \in DOMAIN series }) = 2
        /\ \A k \in DOMAIN series : Len(series[k].Samples) > 0
        /\ Cardinality(CallsLogged) = 2

====
